---- MODULE Spec2Model ----
(***************************************************************************)
(* Model of the OpenVPN interactive service (src/openvpnserv/interactive.c):*)
(* the per-session worker's serve loop, the request handlers, the undo      *)
(* lists and the teardown that replays them.                                *)
(*                                                                          *)
(* Handlers are operators from (request, undo lists, OS state) to           *)
(* (error, undo lists, OS state); the actions apply them.  The OS state is  *)
(* one record `os` whose fields are the tables and registry values the      *)
(* handlers touch.  Strings are sequences of one-character strings.         *)
(***************************************************************************)
EXTENDS Integers, Sequences, FiniteSets, TLC

VARIABLES
    phase,    \* phase[s]: position of worker s in RunOpenvpn
    lists,    \* lists[s][kind]: undo_lists of worker s, head of the list first
    req,      \* req[s]: the last peeked length, the message buffer read, the call that failed
    ack,      \* ack[s]: the last ack written to the engine pipe
    undoLog,  \* undoLog[s]: history of the records Undo processed, in order
    workload, \* workload[s]: the family of requests the engine of s sends
    os,       \* the operating-system state shared by all sessions
    run,      \* run[s]: startup data, engine process, client-pipe reports, engine pipe
    exit_event, \* the manual-reset event the service sets when it is told to stop
    svc       \* the dispatcher: ServiceStartInteractive's position, pipes, threads, wait handles

vars == <<phase, lists, req, ack, undoLog, workload, os, run, exit_event, svc>>

(***************************************************************************)
(* Bounds of the model.                                                    *)
(***************************************************************************)
MaxUndo == 2
MaxThreads == 2
\* Bytes of the longest startup blob.
MaxBlob == 7
\* Requests the engine pipe holds unread.
MaxPending == 2
\* message_id runs through 1..MaxId and starts over.
MaxId == 3
\* Clients that connect to the service pipe while the service runs.
MaxClients == 3

Sessions == {1, 2}

(***************************************************************************)
(* Error codes.                                                            *)
(***************************************************************************)
ERROR_OPENVPN_STARTUP == 536870912
ERROR_STARTUP_DATA == 536870913
ERROR_MESSAGE_DATA == 536870914
ERROR_MESSAGE_TYPE == 536870915
ERROR_FILE_NOT_FOUND == 2
ERROR_OUTOFMEMORY == 14
ERROR_INVALID_PARAMETER == 87
ERROR_NOT_FOUND == 1168
ERROR_OBJECT_ALREADY_EXISTS == 5010

(***************************************************************************)
(* Undo lists.                                                             *)
(***************************************************************************)
UndoKinds ==
    <<"address", "route", "wfp_block", "undo_dns4", "undo_dns6",
      "undo_domains", "undo_ring_buffer", "undo_wins">>

UndoKindSet == {UndoKinds[i] : i \in 1..Len(UndoKinds)}

EmptyLists == [k \in UndoKindSet |-> <<>>]

\* A faulty variant of AddListItem: the new item is linked at the tail.
AddListItemAtTail(list, data) == Append(list, data)

\* A faulty variant of AddListItem: *pfirst is not set, the new item is lost.
AddListItemUnlinked(list, data) == list

\* AddListItem links the new item in front of *pfirst.
AddListItem(list, data) == <<data>> \o list

\* The match functions handed to RemoveListItem.  CmpAddress and CmpRoute
\* are a memcmp of the whole row, CmpWString a wcscmp, CmpAny matches every
\* item.
NoCtx == <<>>

CmpAny(item, ctx) == TRUE

CmpAddress(item, address) == item = address

CmpRoute(item, route) == item = route

CmpWString(item, str) == item = str

CmpHandle(item, hnd) == item = hnd

\* The call match(item->data, ctx) of RemoveListItem.
match_fn(match, item, ctx) ==
    CASE match = "CmpAddress" -> CmpAddress(item, ctx)
      [] match = "CmpRoute" -> CmpRoute(item, ctx)
      [] match = "CmpWString" -> CmpWString(item, ctx)
      [] match = "CmpAny" -> CmpAny(item, ctx)
      [] match = "CmpHandle" -> CmpHandle(item, ctx)

\* A faulty variant of RemoveListItem: the match is found but the item stays linked.
RemoveListItemKeeps(list, match, ctx) ==
    LET hits == {i \in 1..Len(list) : match_fn(match, list[i], ctx)}
    IN  IF hits = {}
        THEN [found |-> FALSE, data |-> <<>>, list |-> list]
        ELSE [found |-> TRUE, data |-> <<list[CHOOSE i \in hits : \A j \in hits : i <= j]>>,
              list |-> list]

\* RemoveListItem unlinks the first item that matches and returns its data.
RemoveListItem(list, match, ctx) ==
    LET hits == {i \in 1..Len(list) : match_fn(match, list[i], ctx)}
    IN  IF hits = {}
        THEN [found |-> FALSE, data |-> <<>>, list |-> list]
        ELSE LET i == CHOOSE i \in hits : \A j \in hits : i <= j
             IN  [found |-> TRUE, data |-> <<list[i]>>,
                  list |-> SubSeq(list, 1, i - 1) \o SubSeq(list, i + 1, Len(list))]

(***************************************************************************)
(* Interfaces known to the OS.  An interface is found by its index or by   *)
(* the LUID that ConvertInterfaceAliasToLuid returns for its alias.        *)
(***************************************************************************)
OsInterfaces == {[index |-> 1, alias |-> <<"t">>, luid |-> 1, iid |-> "{1}"]}

\* InterfaceLuid: utf8to16 of the name, then ConvertInterfaceAliasToLuid.
InterfaceLuid(iface_name, fault) ==
    IF fault = "wide_name"
    THEN [err |-> ERROR_OUTOFMEMORY, luid |-> 0]
    ELSE LET hit == {i \in OsInterfaces : i.alias = iface_name}
         IN  IF hit = {}
             THEN [err |-> ERROR_INVALID_PARAMETER, luid |-> 0]
             ELSE [err |-> 0, luid |-> (CHOOSE i \in hit : TRUE).luid]

\* The interface a row names: the LUID when one is set, else the index.
RowInterface(row) ==
    {i \in OsInterfaces :
        IF row.InterfaceLuid # 0 THEN i.luid = row.InterfaceLuid
                                 ELSE i.index = row.InterfaceIndex}

(***************************************************************************)
(* Unicast addresses.                                                      *)
(***************************************************************************)
AddressKey(row) ==
    [itf |-> (CHOOSE i \in RowInterface(row) : TRUE).index,
     address |-> row.Address]

CreateUnicastIpAddressEntry(row, o) ==
    IF RowInterface(row) = {}
    THEN [err |-> ERROR_NOT_FOUND, os |-> o]
    ELSE IF AddressKey(row) \in o.addrs
    THEN [err |-> ERROR_OBJECT_ALREADY_EXISTS, os |-> o]
    ELSE [err |-> 0, os |-> [o EXCEPT !.addrs = @ \cup {AddressKey(row)}]]

DeleteAddress(row, o) ==
    IF RowInterface(row) = {} \/ AddressKey(row) \notin o.addrs
    THEN [err |-> ERROR_NOT_FOUND, os |-> o]
    ELSE [err |-> 0, os |-> [o EXCEPT !.addrs = @ \ {AddressKey(row)}]]


Ret(e, l, o) == [err |-> e, lists |-> l, os |-> o]

\* A faulty variant of AddressAdd: the entry is not deleted when AddListItem fails.
AddressAddNoRollback(row, c, l, o, fault) ==
    IF c.err # 0
    THEN Ret(c.err, l, o)
    ELSE IF fault = "item"
    THEN Ret(ERROR_OUTOFMEMORY, l, c.os)
    ELSE Ret(0, [l EXCEPT !.address = AddListItem(@, row)], c.os)

\* The add branch, after CreateUnicastIpAddressEntry returned c.
AddressAdd(row, c, l, o, fault) ==
    IF c.err # 0
    THEN Ret(c.err, l, o)
    ELSE IF fault = "item"
    THEN Ret(ERROR_OUTOFMEMORY, l, DeleteAddress(row, c.os).os)
    ELSE Ret(0, [l EXCEPT !.address = AddListItem(@, row)], c.os)

\* The delete branch, after DeleteAddress returned d.
AddressDel(row, d, l, o) ==
    IF d.err # 0
    THEN Ret(d.err, l, o)
    ELSE Ret(0, [l EXCEPT !.address =
                    RemoveListItem(@, "CmpAddress", row).list], d.os)

\* The MIB_UNICASTIPADDRESS_ROW of a message; luid is 0 when only the index is set.
AddressRowOf(m, luid) ==
    [Address |-> <<m.family, m.address>>,
     OnLinkPrefixLength |-> m.prefix_len,
     InterfaceIndex |-> IF m.iface.index # -1 THEN m.iface.index ELSE 0,
     InterfaceLuid |-> luid]

\* The row built from the message and the resolved interface.
AddressRow(m, res, l, o, fault) ==
    IF res.err # 0
    THEN Ret(res.err, l, o)
    ELSE IF m.type = "msg_add_address"
    THEN AddressAdd(AddressRowOf(m, res.luid),
                    CreateUnicastIpAddressEntry(AddressRowOf(m, res.luid), o),
                    l, o, fault)
    ELSE AddressDel(AddressRowOf(m, res.luid),
                    DeleteAddress(AddressRowOf(m, res.luid), o),
                    l, o)

HandleAddressMessage(m, l, o, fault) ==
    IF fault = "row"
    THEN Ret(ERROR_OUTOFMEMORY, l, o)
    ELSE AddressRow(m, IF m.iface.index # -1
                       THEN [err |-> 0, luid |-> 0]
                       ELSE InterfaceLuid(m.iface.name, fault),
                    l, o, fault)

(***************************************************************************)
(* Routes.                                                                 *)
(***************************************************************************)
RouteKey(row) ==
    [itf |-> (CHOOSE i \in RowInterface(row) : TRUE).index,
     prefix |-> row.DestinationPrefix, gateway |-> row.NextHop]

CreateIpForwardEntry2(row, o) ==
    IF RowInterface(row) = {}
    THEN [err |-> ERROR_NOT_FOUND, os |-> o]
    ELSE IF RouteKey(row) \in o.routes
    THEN [err |-> ERROR_OBJECT_ALREADY_EXISTS, os |-> o]
    ELSE [err |-> 0, os |-> [o EXCEPT !.routes = @ \cup {RouteKey(row)}]]

DeleteRoute(row, o) ==
    IF RowInterface(row) = {} \/ RouteKey(row) \notin o.routes
    THEN [err |-> ERROR_NOT_FOUND, os |-> o]
    ELSE [err |-> 0, os |-> [o EXCEPT !.routes = @ \ {RouteKey(row)}]]


\* The add branch, after CreateIpForwardEntry2 returned c.
RouteAdd(row, c, l, o, fault) ==
    IF c.err # 0
    THEN Ret(c.err, l, o)
    ELSE IF fault = "item"
    THEN Ret(ERROR_OUTOFMEMORY, l, DeleteRoute(row, c.os).os)
    ELSE Ret(0, [l EXCEPT !.route = AddListItem(@, row)], c.os)

\* The delete branch, after DeleteRoute returned d.
RouteDel(row, d, l, o) ==
    IF d.err # 0
    THEN Ret(d.err, l, o)
    ELSE Ret(0, [l EXCEPT !.route =
                    RemoveListItem(@, "CmpRoute", row).list], d.os)

\* The MIB_IPFORWARD_ROW2 of a message; luid is 0 when no LUID was looked up.
RouteRowOf(m, luid) ==
    [Metric |-> m.metric,
     DestinationPrefix |-> <<m.family, m.prefix, m.prefix_len>>,
     NextHop |-> <<m.family, m.gateway>>,
     InterfaceIndex |-> IF m.iface.index # -1 THEN m.iface.index ELSE 0,
     InterfaceLuid |-> luid]

\* The row built from the message and the resolved interface.
RouteRow(m, res, l, o, fault) ==
    IF res.err # 0
    THEN Ret(res.err, l, o)
    ELSE IF m.type = "msg_add_route"
    THEN RouteAdd(RouteRowOf(m, res.luid),
                  CreateIpForwardEntry2(RouteRowOf(m, res.luid), o), l, o, fault)
    ELSE RouteDel(RouteRowOf(m, res.luid), DeleteRoute(RouteRowOf(m, res.luid), o), l, o)

HandleRouteMessage(m, l, o, fault) ==
    IF fault = "row"
    THEN Ret(ERROR_OUTOFMEMORY, l, o)
    ELSE RouteRow(m, IF m.iface.index # -1
                     THEN [err |-> 0, luid |-> 0]
                     ELSE IF Len(m.iface.name) # 0
                     THEN InterfaceLuid(m.iface.name, fault)
                     ELSE [err |-> 0, luid |-> 0],
                  l, o, fault)

(***************************************************************************)
(* WFP block filters and interface metrics (wfp_block.h).                  *)
(***************************************************************************)
WFP_BLOCK_IFACE_METRIC == 3

IndexInterface(index) == {i \in OsInterfaces : i.index = index}

\* A handle value that names no open filter engine yet.
NewEngine(o) == CHOOSE e \in 1..(Cardinality(o.filters) + 1) : e \notin o.filters

add_wfp_block_filters(index, o, fault) ==
    IF fault = "filters" \/ IndexInterface(index) = {}
    THEN [err |-> ERROR_NOT_FOUND, engine |-> 0, os |-> o]
    ELSE [err |-> 0, engine |-> NewEngine(o),
          os |-> [o EXCEPT !.filters = @ \cup {NewEngine(o)}]]

delete_wfp_block_filters(engine, o) == [o EXCEPT !.filters = @ \ {engine}]

\* The metric of the interface, 0 when it is automatic, -1 when it cannot be read.
get_interface_metric(index, family, o) ==
    IF <<index, family>> \notin DOMAIN o.metric
    THEN -1
    ELSE o.metric[<<index, family>>]

set_interface_metric(index, family, metric, o, failed) ==
    IF failed \/ <<index, family>> \notin DOMAIN o.metric
    THEN [err |-> ERROR_NOT_FOUND, os |-> o]
    ELSE [err |-> 0, os |-> [o EXCEPT !.metric[<<index, family>>] = metric]]

\* The metrics restored from an undo record, on the interface `index`.
RestoreMetricV6(block_data, index, o4) ==
    IF block_data.metric_v6 >= 0
    THEN set_interface_metric(index, "AF_INET6", block_data.metric_v6, o4, FALSE).os
    ELSE o4

RestoreMetrics(block_data, index, o) ==
    RestoreMetricV6(block_data, index,
        IF block_data.metric_v4 >= 0
        THEN set_interface_metric(index, "AF_INET", block_data.metric_v4, o, FALSE).os
        ELSE o)

\* DeleteWfpBlock after RemoveListItem returned r.
WfpBlockRemoved(m, r, l, o) ==
    IF r.found
    THEN Ret(0, [l EXCEPT !.wfp_block = r.list],
             RestoreMetrics(r.data[1], m.iface.index,
                            delete_wfp_block_filters(r.data[1].engine, o)))
    ELSE Ret(0, l, o)

DeleteWfpBlock(m, l, o) == WfpBlockRemoved(m, RemoveListItem(l.wfp_block, "CmpAny", NoCtx), l, o)

\* The error of AddWfpBlock together with what DeleteWfpBlock left behind.
WfpBlockUndone(e, d) == Ret(e, d.lists, d.os)

\* AddWfpBlock as it would be if a failure to set the IPv6 metric were fatal.
WfpMetricSetStrict(m, l1, s4, fault) ==
    IF s4.err # 0 \/ fault = "metric_v6" \/ <<m.iface.index, "AF_INET6">> \notin DOMAIN s4.os.metric
    THEN WfpBlockUndone(ERROR_NOT_FOUND, DeleteWfpBlock(m, l1, s4.os))
    ELSE Ret(0, l1, set_interface_metric(m.iface.index, "AF_INET6", WFP_BLOCK_IFACE_METRIC,
                                         s4.os, FALSE).os)

\* AddWfpBlock after the record was linked and the IPv4 metric set (s4).
WfpMetricSet(m, l1, s4, fault) ==
    IF s4.err # 0
    THEN WfpBlockUndone(s4.err, DeleteWfpBlock(m, l1, s4.os))
    ELSE Ret(0, l1, set_interface_metric(m.iface.index, "AF_INET6", WFP_BLOCK_IFACE_METRIC,
                                         s4.os, fault = "metric_v6").os)

\* AddWfpBlock after add_wfp_block_filters returned f.
WfpFiltersAdded(m, f, l, o, fault) ==
    IF f.err # 0
    THEN Ret(f.err, l, o)
    ELSE IF fault = "block_data" \/ fault = "item"
    THEN Ret(ERROR_OUTOFMEMORY, l, delete_wfp_block_filters(f.engine, f.os))
    ELSE WfpMetricSet(m,
            [l EXCEPT !.wfp_block = AddListItem(@,
                [engine |-> f.engine, index |-> m.iface.index,
                 metric_v4 |-> get_interface_metric(m.iface.index, "AF_INET", f.os),
                 metric_v6 |-> get_interface_metric(m.iface.index, "AF_INET6", f.os)])],
            set_interface_metric(m.iface.index, "AF_INET", WFP_BLOCK_IFACE_METRIC,
                                 f.os, fault = "metric_v4"),
            fault)

AddWfpBlock(m, l, o, fault) ==
    WfpFiltersAdded(m, add_wfp_block_filters(m.iface.index, o, fault), l, o, fault)

HandleWfpBlockMessage(m, l, o, fault) ==
    IF m.type = "msg_add_wfp_block"
    THEN AddWfpBlock(m, l, o, fault)
    ELSE DeleteWfpBlock(m, l, o)

(***************************************************************************)
(* C strings.  A buffer is a sequence of characters in which NUL ends the  *)
(* string and Junk is a position that was never written.                   *)
(***************************************************************************)
NUL == "NUL"
Junk == "?"

\* strlen / wcslen: the number of characters before the first NUL.
StrLen(buf) == (CHOOSE k \in 1..Len(buf) : buf[k] = NUL /\ \A j \in 1..(k - 1) : buf[j] # NUL) - 1

CStr(buf) == SubSeq(buf, 1, StrLen(buf))

JunkBuf(n) == [k \in 1..n |-> Junk]

\* A buffer is kept up to the last position written; what lies behind it
\* was never written.
Cell(buf, k) == IF k <= Len(buf) THEN buf[k] ELSE Junk

\* buf[off] = c, at the C offset `off`.
PutChar(buf, off, c) ==
    [k \in 1..(IF Len(buf) > off + 1 THEN Len(buf) ELSE off + 1) |->
        IF k = off + 1 THEN c ELSE Cell(buf, k)]

\* A string and its terminator written at the C offset `off` of the buffer.
PutStr(buf, off, str) ==
    [k \in 1..(IF Len(buf) > off + Len(str) + 1 THEN Len(buf) ELSE off + Len(str) + 1) |->
        IF off < k /\ k <= off + Len(str) THEN str[k - off]
        ELSE IF k = off + Len(str) + 1 THEN NUL
        ELSE Cell(buf, k)]

\* wcsstr: the position of the first occurrence of `needle`, 0 when there is none.
WcsStr(hay, needle) ==
    LET hits == {i \in 1..(Len(hay) - Len(needle) + 1) :
                    SubSeq(hay, i, i + Len(needle) - 1) = needle}
    IN  IF hits = {} THEN 0 ELSE CHOOSE i \in hits : \A j \in hits : i <= j

\* wcsncmp(a, b, n) == 0 for strings a and b.
WcsNCmpEqual(a, b, n) ==
    LET pa == a \o <<NUL>>
        pb == b \o <<NUL>>
        m == IF Len(pa) < Len(pb) THEN Len(pa) ELSE Len(pb)
        k == IF n < m THEN n ELSE m
    IN  SubSeq(pa, 1, k) = SubSeq(pb, 1, k)

Digits == <<"1", "2", "3", "4">>

\* RtlIpv4AddressToString and RtlIpv6AddressToString of the model's addresses.
Ipv4String(a) == <<Digits[a]>>
Ipv6String(a) == <<":", Digits[a]>>

(***************************************************************************)
(* WINS servers, set with netsh.                                           *)
(***************************************************************************)
\* netsh interface ip $action wins $if_name [static] $addr; <<>> stands for a
\* NULL addr.  netsh exits with 1 for an interface it does not know and for
\* an address that is already in the list.
netsh_wins_cmd(action, if_name, addr, o, failed) ==
    IF addr = <<>> /\ action # "delete"
    THEN [err |-> 0, os |-> o]
    ELSE IF failed
    THEN [err |-> ERROR_OUTOFMEMORY, os |-> o]
    ELSE IF if_name \notin DOMAIN o.wins
    THEN [err |-> 1, os |-> o]
    ELSE IF action = "delete"
    THEN [err |-> 0, os |-> [o EXCEPT !.wins[if_name] = <<>>]]
    ELSE IF action = "set"
    THEN [err |-> 0, os |-> [o EXCEPT !.wins[if_name] = <<addr>>]]
    ELSE IF \E i \in 1..Len(o.wins[if_name]) : o.wins[if_name][i] = addr
    THEN [err |-> 1, os |-> o]
    ELSE [err |-> 0, os |-> [o EXCEPT !.wins[if_name] = Append(@, addr)]]


\* The capped address count of a dns_cfg or wins_cfg message: the int
\* addr_len is compared with the unsigned _countof(msg->addr).
CappedAddrLen(m) == IF m.addr_len < 0 \/ m.addr_len > 4 THEN 4 ELSE m.addr_len

RECURSIVE WinsAddLoop(_, _, _, _, _)
\* One iteration of the loop, after netsh_wins_cmd returned r.
WinsAdded(m, wide_name, i, r, fault) ==
    IF i = 0 /\ r.err # 0
    THEN [err |-> r.err, os |-> r.os]
    ELSE WinsAddLoop(m, wide_name, i + 1, r.os, fault)

\* The for loop over the addresses: "set" for the first, "add" for the rest;
\* only a failure of the first ends the loop with an error.
WinsAddLoop(m, wide_name, i, o, fault) ==
    IF i >= CappedAddrLen(m)
    THEN [err |-> 0, os |-> o]
    ELSE WinsAdded(m, wide_name, i,
                   netsh_wins_cmd(IF i = 0 THEN "set" ELSE "add", wide_name,
                                  Ipv4String(m.addr[i + 1]), o, i = 0 /\ fault = "netsh_set"),
                   fault)

\* After the loop: the undo record is linked when addresses were set.
WinsLooped(m, loop, l1, fault) ==
    IF loop.err # 0
    THEN Ret(loop.err, l1, loop.os)
    ELSE IF CappedAddrLen(m) > 0 /\ fault = "item"
    THEN Ret(ERROR_OUTOFMEMORY, l1,
             netsh_wins_cmd("delete", m.iface.name, <<>>, loop.os, FALSE).os)
    ELSE IF CappedAddrLen(m) > 0
    THEN Ret(0, [l1 EXCEPT !.undo_wins = AddListItem(@, m.iface.name)], loop.os)
    ELSE Ret(0, l1, loop.os)

\* After the current addresses were deleted (del), when they had to be.
WinsDeleted(m, del, l, o, fault) ==
    IF del.err # 0
    THEN Ret(del.err, l, o)
    ELSE IF m.type = "msg_del_wins_cfg"
    THEN Ret(0, [l EXCEPT !.undo_wins =
                    RemoveListItem(@, "CmpWString", m.iface.name).list],
             del.os)
    ELSE WinsLooped(m, WinsAddLoop(m, m.iface.name, 0, del.os, fault),
                    IF CappedAddrLen(m) > 0
                    THEN [l EXCEPT !.undo_wins =
                             RemoveListItem(@, "CmpWString", m.iface.name).list]
                    ELSE l,
                    fault)

HandleWINSConfigMessage(m, l, o, fault) ==
    IF Len(m.iface.name) = 0
    THEN Ret(ERROR_MESSAGE_DATA, l, o)
    ELSE IF fault = "wide_name"
    THEN Ret(ERROR_OUTOFMEMORY, l, o)
    ELSE WinsDeleted(m,
            IF CappedAddrLen(m) > 0 \/ m.type = "msg_del_wins_cfg"
            THEN netsh_wins_cmd("delete", m.iface.name, <<>>, o, fault = "netsh_delete")
            ELSE [err |-> 0, os |-> o],
            l, o, fault)

(***************************************************************************)
(* DNS: the resolver notifications, the search list and the name servers.  *)
(* A registry value is [set |-> BOOLEAN, val |-> string]; os.searchList    *)
(* and os.initialList hold SearchList and InitialSearchList of the         *)
(* group-policy key "gpol", the system-wide key "system" and the           *)
(* per-interface keys (named by the interface id string).                  *)
(***************************************************************************)
SearchListCap == 8

NoValue == [set |-> FALSE, val |-> <<>>]

RegSz(str) == [set |-> TRUE, val |-> str]

\* ApplyDnsSettings: the group-policy notification when asked for, then
\* SERVICE_CONTROL_PARAMCHANGE to Dnscache.
ApplyDnsSettings(apply_gpol, o) ==
    [o EXCEPT !.reload = IF apply_gpol THEN "gpol+paramchange" ELSE "paramchange"]

\* InterfaceIdString: alias to LUID to GUID to the string of the GUID.
LuidIdString(r) ==
    IF r.err # 0
    THEN [err |-> r.err, iid |-> ""]
    ELSE [err |-> 0, iid |-> (CHOOSE i \in OsInterfaces : i.luid = r.luid).iid]

InterfaceIdString(itf_name, fault) == LuidIdString(InterfaceLuid(itf_name, fault))

ValidDomainChar(c) == c \in {"a", "b", "c", "-", "."}

\* sizeof(data), the buffer HasValidSearchList reads the SearchList into.
SearchDataLen == 64

\* What HasValidSearchList scans.  A list that fits the buffer with its
\* terminator is in the buffer.  For a longer one RegGetValueA returns
\* ERROR_MORE_DATA and the contents of the buffer are not defined: the
\* loop scans whatever the buffer holds (o.data), cut at the last element.
ScannedData(value, o) ==
    IF Len(value.val) + 1 <= SearchDataLen
    THEN value.val
    ELSE SubSeq(o.data, 1, IF Len(o.data) < SearchDataLen THEN Len(o.data)
                           ELSE SearchDataLen - 1)

\* HasValidSearchList: SearchList exists and the scanned data holds a domain
\* name character.
HasValidSearchList(key, o) ==
    /\ o.searchList[key].set
    /\ \E i \in 1..Len(ScannedData(o.searchList[key], o)) :
          ValidDomainChar(ScannedData(o.searchList[key], o)[i])

INVALID_HANDLE_VALUE == "INVALID_HANDLE_VALUE"

\* The per-interface key, when the interface id string was found (id).
InterfaceSearchListKey(id) ==
    [have_list |-> FALSE, gpol |-> FALSE,
     key |-> IF id.err = 0 THEN id.iid ELSE INVALID_HANDLE_VALUE]

GetDnsSearchListKey(itf_name, o) ==
    IF HasValidSearchList("gpol", o)
    THEN [have_list |-> TRUE, gpol |-> TRUE, key |-> "gpol"]
    ELSE IF HasValidSearchList("system", o)
    THEN [have_list |-> TRUE, gpol |-> FALSE, key |-> "system"]
    ELSE IF itf_name # <<NUL>>
    THEN InterfaceSearchListKey(InterfaceIdString(itf_name, "none"))
    ELSE [have_list |-> FALSE, gpol |-> FALSE, key |-> INVALID_HANDLE_VALUE]

\* RegGetValueW into a buffer of SearchListCap wide characters.
RegGetList(value) ==
    IF value.set /\ Len(value.val) + 1 <= SearchListCap
    THEN [err |-> 0, list |-> value.val]
    ELSE [err |-> ERROR_FILE_NOT_FOUND, list |-> <<>>]

InitialSearchListExists(key, o) == o.initialList[key].set

StoreInitialDnsSearchList(key, list, o) ==
    IF Len(list) = 0
    THEN [ok |-> FALSE, os |-> o]
    ELSE IF InitialSearchListExists(key, o)
    THEN [ok |-> TRUE, os |-> o]
    ELSE [ok |-> TRUE, os |-> [o EXCEPT !.initialList[key] = RegSz(list)]]

\* A faulty variant of AppendDnsSearchDomains: the domains follow the list
\* without the comma.
AppendWithoutComma(key, g, st, domains) ==
    IF ~st.ok
    THEN [ok |-> FALSE, os |-> st.os]
    ELSE [ok |-> TRUE, os |-> [st.os EXCEPT !.searchList[key] = RegSz(g.list \o domains)]]

\* AddDnsSearchDomains with an existing list g, after the initial list was stored (st).
AppendDnsSearchDomains(key, g, st, domains) ==
    IF ~st.ok
    THEN [ok |-> FALSE, os |-> st.os]
    ELSE IF Len(g.list) + Len(domains) + 2 > SearchListCap
    THEN [ok |-> FALSE, os |-> st.os]
    ELSE [ok |-> TRUE,
          os |-> [st.os EXCEPT !.searchList[key] = RegSz(g.list \o <<",">> \o domains)]]

\* AddDnsSearchDomains after RegGetValueW returned the list g.
AddToSearchList(key, g, domains, o) ==
    IF g.err # 0
    THEN [ok |-> FALSE, os |-> o]
    ELSE AppendDnsSearchDomains(key, g, StoreInitialDnsSearchList(key, g.list, o), domains)

AddDnsSearchDomains(key, have_list, domains, o) ==
    IF have_list
    THEN AddToSearchList(key, RegGetList(o.searchList[key]), domains, o)
    ELSE [ok |-> TRUE, os |-> [o EXCEPT !.searchList[key] = RegSz(domains)]]

\* ResetDnsSearchDomains after RegGetValueW returned the initial list g.
RestoreInitialList(key, g, o) ==
    IF g.err # 0
    THEN [ret |-> FALSE, os |-> o]
    ELSE [ret |-> TRUE,
          os |-> [o EXCEPT !.searchList[key] = RegSz(g.list),
                           !.initialList[key] = NoValue]]

ResetDnsSearchDomains(key, o) == RestoreInitialList(key, RegGetList(o.initialList[key]), o)

\* wmemmove(dst, src, domlen) on the list buffer: domlen characters of what
\* follows the domains are moved over the domains and their leading comma.
\* `at` is the position wcsstr found; the buffer behind the terminator was
\* never written.
MoveOverDomains(list, at, domlen) ==
    [k \in 1..(Len(list) + 1 + domlen) |->
        IF (IF at > 1 THEN at - 1 ELSE at) <= k /\ k < (IF at > 1 THEN at - 1 ELSE at) + domlen
        THEN (list \o <<NUL>> \o JunkBuf(domlen))[at + domlen + (k - (IF at > 1 THEN at - 1 ELSE at))]
        ELSE (list \o <<NUL>> \o JunkBuf(domlen))[k]]

\* RemoveDnsSearchDomains after the domains were cut out: `list` is what is
\* left, `initial` what RegGetValueW returned for InitialSearchList.
SearchListCut(key, list, initial, o) ==
    IF Len(list) # 0 /\ initial.err # 0
    THEN o
    ELSE IF Len(list) # 0 /\ WcsNCmpEqual(list, initial.list, Len(list))
    THEN ResetDnsSearchDomains(key, o).os
    ELSE [o EXCEPT !.searchList[key] = RegSz(list)]

\* RemoveDnsSearchDomains after RegGetValueW returned the list g.
CutFromSearchList(key, g, at, domains, o) ==
    IF g.err # 0 \/ at = 0
    THEN o
    ELSE SearchListCut(key, CStr(MoveOverDomains(g.list, at, Len(domains))),
                       RegGetList(o.initialList[key]), o)

SearchListFound(key, g, domains, o) ==
    CutFromSearchList(key, g, WcsStr(g.list, domains), domains, o)

RemoveDnsSearchDomains(key, domains, o) ==
    SearchListFound(key, RegGetList(o.searchList[key]), domains, o)

\* UndoDnsSearchDomains after GetDnsSearchListKey returned k.
UndoDomainsAt(k, undo_data, o) ==
    IF k.key # INVALID_HANDLE_VALUE
    THEN ApplyDnsSettings(k.gpol, RemoveDnsSearchDomains(k.key, undo_data.domains, o))
    ELSE o

UndoDnsSearchDomains(undo_data, o) ==
    UndoDomainsAt(GetDnsSearchListKey(undo_data.itf_name, o), undo_data, o)

DomainsRet(e, k, l, o) == [err |-> e, gpol |-> k.gpol, lists |-> l, os |-> o]

\* SetDnsSearchDomains after AddDnsSearchDomains returned add.
DomainsAdded(k, itf_name, domains, add, l1, fault) ==
    IF ~add.ok \/ fault = "domains_item"
    THEN DomainsRet(ERROR_OUTOFMEMORY, k, l1, RemoveDnsSearchDomains(k.key, domains, add.os))
    ELSE DomainsRet(0, k,
                    [l1 EXCEPT !.undo_domains =
                        AddListItem(@, [itf_name |-> itf_name, domains |-> domains])],
                    add.os)

\* SetDnsSearchDomains after the previous domains were removed.
DomainsRemoved(k, itf_name, domains, l1, o1, fault) ==
    IF Len(domains) = 0
    THEN DomainsRet(0, k, l1, o1)
    ELSE IF fault = "wide_domains" \/ fault = "undo_data"
    THEN DomainsRet(ERROR_OUTOFMEMORY, k, l1, o1)
    ELSE DomainsAdded(k, itf_name, domains,
                      AddDnsSearchDomains(k.key, k.have_list, domains, o1), l1, fault)

\* SetDnsSearchDomains after the previous undo record was unlinked (old).
DomainsUnlinked(k, old, itf_name, domains, l, o, fault) ==
    DomainsRemoved(k, itf_name, domains, [l EXCEPT !.undo_domains = old.list],
                   IF old.found
                   THEN RemoveDnsSearchDomains(k.key, old.data[1].domains, o)
                   ELSE o,
                   fault)

\* SetDnsSearchDomains after GetDnsSearchListKey returned k.
DomainsAt(k, itf_name, domains, l, o, fault) ==
    IF k.key = INVALID_HANDLE_VALUE
    THEN DomainsRet(ERROR_FILE_NOT_FOUND, k, l, o)
    ELSE DomainsUnlinked(k, RemoveListItem(l.undo_domains, "CmpAny", NoCtx),
                         itf_name, domains, l, o, fault)

\* SetDnsSearchDomains; an empty `domains` stands for NULL or "".
SetDnsSearchDomains(itf_name, domains, l, o, fault) ==
    DomainsAt(GetDnsSearchListKey(itf_name, o), itf_name, domains, l, o, fault)

\* The registry key of the name servers: Tcpip6 for AF_INET6, else Tcpip.
GetInterfacesKey(family) == IF family = "AF_INET6" THEN "Tcpip6" ELSE "Tcpip"

SetNameServersValue(itf_id, family, value, o) ==
    IF <<itf_id, GetInterfacesKey(family)>> \notin DOMAIN o.nameServer
    THEN [err |-> ERROR_FILE_NOT_FOUND, os |-> o]
    ELSE [err |-> 0, os |-> [o EXCEPT !.nameServer[<<itf_id, GetInterfacesKey(family)>>] = value]]

SetNameServers(itf_id, family, addrs, o) == SetNameServersValue(itf_id, family, addrs, o)

ResetNameServers(itf_id, family, o) == SetNameServersValue(itf_id, family, <<>>, o)

RECURSIVE AddrsLoop(_, _, _, _, _)
\* One iteration of the loop, after the address string was written.
AddrsWritten(m, addr_len, i, a2, off1) ==
    AddrsLoop(m, addr_len, i + 1, a2, off1 + StrLen(a2))

\* The loop that prepares the comma separated address list in addrs[256],
\* which four address strings never fill: offset advances by strlen(addrs),
\* the length of the whole string so far.
AddrsLoop(m, addr_len, i, addrs, offset) ==
    IF i >= addr_len
    THEN CStr(addrs)
    ELSE AddrsWritten(m, addr_len, i,
            PutStr(IF i # 0 THEN PutChar(addrs, offset, <<",">>[1]) ELSE addrs,
                   IF i # 0 THEN offset + 1 ELSE offset,
                   IF m.family = "AF_INET6"
                   THEN Ipv6String(m.addr[i + 1])
                   ELSE Ipv4String(m.addr[i + 1])),
            IF i # 0 THEN offset + 1 ELSE offset)

\* undo_type = (msg->family == AF_INET6) ? undo_dns4 : undo_dns6
DnsUndoType(family) == IF family = "AF_INET6" THEN "undo_dns4" ELSE "undo_dns6"

\* The end of HandleDNSConfigMessage: ApplyDnsSettings(gpol), return err.
DnsApplied(r) == Ret(r.err, r.lists, ApplyDnsSettings(r.gpol, r.os))

\* The search domains of the message: `domains` is <<>> for del_dns_cfg,
\* which passes NULL.
DnsDomains(m, domains, st, fault) ==
    IF st.err # 0
    THEN st
    ELSE IF Len(m.domains) # 0
    THEN DnsApplied(SetDnsSearchDomains(m.iface.name, domains, st.lists, st.os, fault))
    ELSE Ret(0, st.lists, ApplyDnsSettings(FALSE, st.os))

\* After SetNameServers returned set: the undo record is linked.
DnsServersSet(m, iid, set, l1, o1, fault) ==
    IF set.err # 0
    THEN Ret(set.err, l1, o1)
    ELSE IF fault = "tmp_iid" \/ fault = "item"
    THEN Ret(ERROR_OUTOFMEMORY, l1, ResetNameServers(iid, m.family, set.os).os)
    ELSE Ret(0, [l1 EXCEPT ![DnsUndoType(m.family)] = AddListItem(@, iid)], set.os)

\* The name servers of an add_dns_cfg message.
DnsServers(m, iid, l1, o1, fault) ==
    IF m.type = "msg_del_dns_cfg" \/ m.addr_len <= 0
    THEN Ret(0, l1, o1)
    ELSE DnsServersSet(m, iid,
            SetNameServers(iid, m.family,
                           AddrsLoop(m, CappedAddrLen(m), 0, <<>>, 0), o1),
            l1, o1, fault)

\* A faulty variant of DnsReset: the previous record of the family stays
\* linked.
DnsResetKeepsRecord(m, iid, rs, l, o, fault) ==
    IF rs.err # 0
    THEN Ret(rs.err, l, o)
    ELSE DnsDomains(m, IF m.type = "msg_del_dns_cfg" THEN <<>> ELSE m.domains,
            DnsServers(m, iid, l, rs.os, fault),
            fault)

\* After ResetNameServers returned rs, when the servers had to be reset.
DnsReset(m, iid, rs, l, o, fault) ==
    IF rs.err # 0
    THEN Ret(rs.err, l, o)
    ELSE DnsDomains(m, IF m.type = "msg_del_dns_cfg" THEN <<>> ELSE m.domains,
            DnsServers(m, iid,
                IF CappedAddrLen(m) > 0 \/ m.type = "msg_del_dns_cfg"
                THEN [l EXCEPT ![DnsUndoType(m.family)] = RemoveListItem(@, "CmpAny", NoCtx).list]
                ELSE l,
                rs.os, fault),
            fault)

\* After InterfaceIdString returned id.
DnsInterface(m, id, l, o, fault) ==
    IF id.err # 0
    THEN Ret(id.err, l, o)
    ELSE DnsReset(m, id.iid,
                  IF CappedAddrLen(m) > 0 \/ m.type = "msg_del_dns_cfg"
                  THEN ResetNameServers(id.iid, m.family, o)
                  ELSE [err |-> 0, os |-> o],
                  l, o, fault)

HandleDNSConfigMessage(m, l, o, fault) ==
    IF Len(m.iface.name) = 0
    THEN Ret(ERROR_MESSAGE_DATA, l, o)
    ELSE DnsInterface(m, InterfaceIdString(m.iface.name, fault), l, o, fault)

(***************************************************************************)
(* Ring buffers.                                                           *)
(***************************************************************************)
\* An address at which no view is mapped yet.
NewView(o) == CHOOSE v \in 1..(Cardinality(o.views) + 1) : v \notin o.views

\* OvpnUnmapViewOfFile on both rings of a record; 0 is a NULL ring.
UnmapRingBuffer(maps, o) ==
    [o EXCEPT !.views = @ \ ({maps.send_ring, maps.receive_ring} \ {0})]

\* DuplicateHandle fails for a handle the engine does not hold.
OvpnDuplicateHandle(orig_handle) ==
    IF orig_handle = "valid" THEN 0 ELSE ERROR_INVALID_PARAMETER

\* DuplicateAndMapRing: the view mapped, or 0 with the error.
DuplicateAndMapRing(orig_handle, o, failed) ==
    IF OvpnDuplicateHandle(orig_handle) # 0
    THEN [err |-> OvpnDuplicateHandle(orig_handle), ring |-> 0, os |-> o]
    ELSE IF failed
    THEN [err |-> ERROR_OUTOFMEMORY, ring |-> 0, os |-> o]
    ELSE [err |-> 0, ring |-> NewView(o), os |-> [o EXCEPT !.views = @ \cup {NewView(o)}]]

\* The label out of HandleRegisterRingBuffers with an error: the maps are unmapped.
RingsFailed(e, l0, maps, o) == Ret(e, l0, UnmapRingBuffer(maps, o))

\* After both rings were mapped: the tail events, register_ring_buffers, AddListItem.
RingsMapped(m, l0, maps, o, fault) ==
    IF OvpnDuplicateHandle(m.send_tail_moved) # 0
    THEN RingsFailed(OvpnDuplicateHandle(m.send_tail_moved), l0, maps, o)
    ELSE IF OvpnDuplicateHandle(m.receive_tail_moved) # 0
    THEN RingsFailed(OvpnDuplicateHandle(m.receive_tail_moved), l0, maps, o)
    ELSE IF fault = "register"
    THEN RingsFailed(ERROR_INVALID_PARAMETER, l0, maps, o)
    ELSE IF fault = "item"
    THEN RingsFailed(ERROR_OUTOFMEMORY, l0, maps, o)
    ELSE Ret(0, [l0 EXCEPT !.undo_ring_buffer = AddListItem(@, maps)], o)

\* After DuplicateAndMapRing of the receive ring returned recv.
ReceiveRingMapped(m, l0, send_ring, recv, fault) ==
    IF recv.err # 0
    THEN RingsFailed(recv.err, l0, [send_ring |-> send_ring, receive_ring |-> 0], recv.os)
    ELSE RingsMapped(m, l0, [send_ring |-> send_ring, receive_ring |-> recv.ring],
                     recv.os, fault)

\* After DuplicateAndMapRing of the send ring returned send.
SendRingMapped(m, l0, send, fault) ==
    IF send.err # 0
    THEN RingsFailed(send.err, l0, [send_ring |-> 0, receive_ring |-> 0], send.os)
    ELSE ReceiveRingMapped(m, l0, send.ring,
            DuplicateAndMapRing(m.receive_ring_handle, send.os, fault = "map_receive"),
            fault)

\* A faulty variant of RingsUnlinked: the rings of the previous record stay
\* mapped.
RingsUnlinkedNotUnmapped(m, old, l, o, fault) ==
    IF ~old.found /\ fault = "maps"
    THEN Ret(ERROR_OUTOFMEMORY, l, o)
    ELSE IF OvpnDuplicateHandle(m.device) # 0
    THEN Ret(OvpnDuplicateHandle(m.device), [l EXCEPT !.undo_ring_buffer = old.list], o)
    ELSE SendRingMapped(m, [l EXCEPT !.undo_ring_buffer = old.list],
            DuplicateAndMapRing(m.send_ring_handle, o, fault = "map_send"),
            fault)

\* After the previous record was unlinked (old) and its rings unmapped.
RingsUnlinked(m, old, l, o, fault) ==
    IF ~old.found /\ fault = "maps"
    THEN Ret(ERROR_OUTOFMEMORY, l, o)
    ELSE IF OvpnDuplicateHandle(m.device) # 0
    THEN Ret(OvpnDuplicateHandle(m.device), [l EXCEPT !.undo_ring_buffer = old.list],
             IF old.found THEN UnmapRingBuffer(old.data[1], o) ELSE o)
    ELSE SendRingMapped(m, [l EXCEPT !.undo_ring_buffer = old.list],
            DuplicateAndMapRing(m.send_ring_handle,
                                IF old.found THEN UnmapRingBuffer(old.data[1], o) ELSE o,
                                fault = "map_send"),
            fault)

HandleRegisterRingBuffers(m, l, o, fault) ==
    RingsUnlinked(m, RemoveListItem(l.undo_ring_buffer, "CmpAny", NoCtx), l, o, fault)

(***************************************************************************)
(* Requests without undo information.                                      *)
(***************************************************************************)
\* FlushIpNetTable / FlushIpNetTable2: the neighbour cache is not modelled.
HandleFlushNeighborsMessage(m, l, o) ==
    [err |-> IF IndexInterface(m.iface.index) = {} THEN ERROR_NOT_FOUND ELSE 0,
     lists |-> l, os |-> o]

\* netsh interface ipv4 set address name=$if_index source=dhcp
HandleEnableDHCPMessage(m, l, o, fault) ==
    IF fault = "cmdline"
    THEN [err |-> ERROR_OUTOFMEMORY, lists |-> l, os |-> o]
    ELSE IF IndexInterface(m.iface.index) = {}
    THEN [err |-> 1, lists |-> l, os |-> o]
    ELSE [err |-> 0, lists |-> l, os |-> [o EXCEPT !.dhcp = @ \cup {m.iface.index}]]

\* GetIpInterfaceEntry, then SetIpInterfaceEntry with the new NlMtu.
HandleMTUMessage(m, l, o) ==
    IF <<m.iface.index, m.family>> \notin DOMAIN o.mtu
    THEN [err |-> ERROR_NOT_FOUND, lists |-> l, os |-> o]
    ELSE [err |-> 0, lists |-> l,
          os |-> [o EXCEPT !.mtu[<<m.iface.index, m.family>>] = m.mtu]]

\* A faulty variant of HandleRegisterDNSMessage: the thread is recorded in
\* an undo list.
HandleRegisterDNSMessageRecorded(l, o, fault) ==
    IF fault = "thread"
    THEN [err |-> ERROR_OUTOFMEMORY, lists |-> l, os |-> o]
    ELSE [err |-> 0, lists |-> [l EXCEPT !["undo_dns4"] = AddListItem(@, "thread")],
          os |-> [o EXCEPT !.rdnsWaiting = @ + 1]]

\* CreateThread(RegisterDNS): the new thread waits for the semaphore.
HandleRegisterDNSMessage(l, o, fault) ==
    IF fault = "thread"
    THEN [err |-> ERROR_OUTOFMEMORY, lists |-> l, os |-> o]
    ELSE [err |-> 0, lists |-> l, os |-> [o EXCEPT !.rdnsWaiting = @ + 1]]

(***************************************************************************)
(* The message codec (openvpn-msg.h) and HandleMessage.                    *)
(***************************************************************************)
\* sizeof of the header, of each variant and of the union pipe_message_t.
Sizeof(variant) ==
    CASE variant = "header" -> 12
      [] variant = "address" -> 291
      [] variant = "route" -> 311
      [] variant = "flush_neighbors" -> 274
      [] variant = "wfp_block" -> 276
      [] variant = "dns" -> 854
      [] variant = "wins" -> 292
      [] variant = "dhcp" -> 272
      [] variant = "rrb" -> 52
      [] variant = "mtu" -> 278
      [] variant = "pipe_message_t" -> 854

\* The variant a message type selects; "header" for a type without body.
VariantOf(type) ==
    CASE type \in {"msg_add_address", "msg_del_address"} -> "address"
      [] type \in {"msg_add_route", "msg_del_route"} -> "route"
      [] type = "msg_flush_neighbors" -> "flush_neighbors"
      [] type \in {"msg_add_wfp_block", "msg_del_wfp_block"} -> "wfp_block"
      [] type \in {"msg_add_dns_cfg", "msg_del_dns_cfg"} -> "dns"
      [] type \in {"msg_add_wins_cfg", "msg_del_wins_cfg"} -> "wins"
      [] type = "msg_enable_dhcp" -> "dhcp"
      [] type = "msg_register_ring_buffers" -> "rrb"
      [] type = "msg_set_mtu" -> "mtu"
      [] OTHER -> "header"

KnownTypes ==
    {"msg_add_address", "msg_del_address", "msg_add_route", "msg_del_route",
     "msg_flush_neighbors", "msg_add_wfp_block", "msg_del_wfp_block",
     "msg_register_dns", "msg_add_dns_cfg", "msg_del_dns_cfg",
     "msg_add_wins_cfg", "msg_del_wins_cfg", "msg_enable_dhcp",
     "msg_register_ring_buffers", "msg_set_mtu"}

\* A faulty variant of UnknownType: the ack keeps the error it was initialised with.
UnknownTypeKeepsError(m, l, o) == Ret(ERROR_MESSAGE_DATA, l, o)

\* The default case of the switch.
UnknownType(m, l, o) == Ret(ERROR_MESSAGE_TYPE, l, o)

\* The switch of HandleMessage on a message that passed the header check.
\* The ack keeps ERROR_MESSAGE_DATA when a case does not call its handler.
Dispatch(m, l, o, fault) ==
    CASE m.type \in {"msg_add_address", "msg_del_address"}
            /\ m.size = Sizeof("address") -> HandleAddressMessage(m, l, o, fault)
      [] m.type \in {"msg_add_route", "msg_del_route"}
            /\ m.size = Sizeof("route") -> HandleRouteMessage(m, l, o, fault)
      [] m.type = "msg_flush_neighbors"
            /\ m.size = Sizeof("flush_neighbors") -> HandleFlushNeighborsMessage(m, l, o)
      [] m.type \in {"msg_add_wfp_block", "msg_del_wfp_block"}
            /\ m.size = Sizeof("wfp_block") -> HandleWfpBlockMessage(m, l, o, fault)
      [] m.type = "msg_register_dns" -> HandleRegisterDNSMessage(l, o, fault)
      [] m.type \in {"msg_add_dns_cfg", "msg_del_dns_cfg"} ->
            HandleDNSConfigMessage(m, l, o, fault)
      [] m.type \in {"msg_add_wins_cfg", "msg_del_wins_cfg"} ->
            HandleWINSConfigMessage(m, l, o, fault)
      [] m.type = "msg_enable_dhcp"
            /\ m.size = Sizeof("dhcp") -> HandleEnableDHCPMessage(m, l, o, fault)
      [] m.type = "msg_register_ring_buffers"
            /\ m.size = Sizeof("rrb") -> HandleRegisterRingBuffers(m, l, o, fault)
      [] m.type = "msg_set_mtu"
            /\ m.size = Sizeof("mtu") -> HandleMTUMessage(m, l, o)
      [] m.type \notin KnownTypes -> UnknownType(m, l, o)
      [] OTHER -> Ret(ERROR_MESSAGE_DATA, l, o)

\* The ack written at the label out, with what the handler left behind.
Acked(message_id, r) ==
    [ack |-> [message_id |-> message_id, error_number |-> r.err],
     lists |-> r.lists, os |-> r.os]

\* HandleMessage: `bytes` is the peeked length, `read` what ReadPipeAsync
\* returned, m the content of the message buffer after the read.
HandleMessage(bytes, read, m, l, o, fault) ==
    IF read # bytes \/ read < Sizeof("header") \/ read # m.size
    THEN Acked(-1, Ret(ERROR_MESSAGE_DATA, l, o))
    ELSE Acked(m.message_id, Dispatch(m, l, o, fault))

(***************************************************************************)
(* Undo: the lists are replayed kind by kind, each from its head.          *)
(***************************************************************************)
UndoItem(type, data, o) ==
    CASE type = "address" -> DeleteAddress(data, o).os
      [] type = "route" -> DeleteRoute(data, o).os
      [] type = "undo_dns4" -> ResetNameServers(data, "AF_INET", o).os
      [] type = "undo_dns6" -> ResetNameServers(data, "AF_INET6", o).os
      [] type = "undo_domains" -> UndoDnsSearchDomains(data, o)
      [] type = "undo_wins" -> netsh_wins_cmd("delete", data, <<>>, o, FALSE).os
      [] type = "wfp_block" ->
            RestoreMetrics(data, data.index, delete_wfp_block_filters(data.engine, o))
      [] type = "undo_ring_buffer" -> UnmapRingBuffer(data, o)

\* A faulty variant of UndoList: an `if` where the code has a `while`, so that only
\* the head of the list is processed.
UndoListHeadOnly(type, list, o, log) ==
    IF list = <<>>
    THEN [os |-> o, log |-> log, list |-> list]
    ELSE [os |-> UndoItem(type, Head(list), o),
          log |-> Append(log, [type |-> type, data |-> Head(list)]),
          list |-> Tail(list)]

RECURSIVE UndoList(_, _, _, _)
\* The while loop over one list: every item is processed and unlinked
\* (*pnext = item->next); [os, log, list] when *pnext is NULL.
UndoList(type, list, o, log) ==
    IF list = <<>>
    THEN [os |-> o, log |-> log, list |-> list]
    ELSE UndoList(type, Tail(list), UndoItem(type, Head(list), o),
                  Append(log, [type |-> type, data |-> Head(list)]))

RECURSIVE UndoFrom(_, _, _, _)
\* A faulty variant of UndoNext: the items processed stay linked in their list.
UndoNextKeepsItems(t, l, r) == UndoFrom(t + 1, l, r.os, r.log)

\* The for loop goes on with the next type after the list of type t (r).
UndoNext(t, l, r) == UndoFrom(t + 1, [l EXCEPT ![UndoKinds[t]] = r.list], r.os, r.log)

\* The for loop over the undo types, from type number t on.
UndoFrom(t, l, o, log) ==
    IF t > Len(UndoKinds)
    THEN [os |-> o, log |-> log, lists |-> l]
    ELSE UndoNext(t, l, UndoList(UndoKinds[t], l[UndoKinds[t]], o, log))

Undo(l, o) == UndoFrom(1, l, o, <<>>)

(***************************************************************************)
(* The requests an engine sends.  A frame is the length the engine wrote   *)
(* to the pipe together with the message; a workload is the family of      *)
(* requests one engine uses.                                               *)
(***************************************************************************)
ByIndex == [index |-> 1, name |-> <<>>]
ByName == [index |-> -1, name |-> <<"t">>]
BadName == [index |-> -1, name |-> <<"x">>]
NoIface == [index |-> -1, name |-> <<>>]

Header(type) == [type |-> type, size |-> Sizeof(VariantOf(type)), message_id |-> 1]

AddressMsg(type, iface, address) ==
    [type |-> type, size |-> Sizeof("address"), message_id |-> 1,
     family |-> "AF_INET", prefix_len |-> 1, iface |-> iface, address |-> address]

RouteMsg(type, iface, prefix) ==
    [type |-> type, size |-> Sizeof("route"), message_id |-> 1,
     family |-> "AF_INET", prefix_len |-> 1, iface |-> iface, prefix |-> prefix,
     gateway |-> 1, metric |-> 1]

IfaceMsg(type, iface) ==
    [type |-> type, size |-> Sizeof(VariantOf(type)), message_id |-> 1,
     family |-> "AF_INET", flags |-> 0, mtu |-> 2, iface |-> iface]

DnsMsg(type, iface, family, addr_len, domains) ==
    [type |-> type, size |-> Sizeof("dns"), message_id |-> 1, iface |-> iface,
     family |-> family, addr_len |-> addr_len, addr |-> <<1, 2, 1, 2>>,
     domains |-> domains]

WinsMsg(type, iface, addr_len) ==
    [type |-> type, size |-> Sizeof("wins"), message_id |-> 1, iface |-> iface,
     addr_len |-> addr_len, addr |-> <<1, 2, 1, 2>>]

RrbMsg(device, send_ring_handle) ==
    [type |-> "msg_register_ring_buffers", size |-> Sizeof("rrb"), message_id |-> 1,
     device |-> device, send_ring_handle |-> send_ring_handle,
     receive_ring_handle |-> "valid", send_tail_moved |-> "valid",
     receive_tail_moved |-> "valid"]

NetMsgs ==
    {AddressMsg(t, i, 1) : t \in {"msg_add_address", "msg_del_address"},
                           i \in {ByIndex, ByName, BadName}}
    \cup {AddressMsg(t, ByIndex, 2) : t \in {"msg_add_address", "msg_del_address"}}
    \cup {RouteMsg(t, i, 1) : t \in {"msg_add_route", "msg_del_route"},
                              i \in {ByIndex, BadName, NoIface}}

WfpMsgs ==
    {IfaceMsg(t, i) : t \in {"msg_add_wfp_block", "msg_del_wfp_block"},
                      i \in {ByIndex, [index |-> 2, name |-> <<>>]}}

DnsMsgs ==
    {DnsMsg(t, ByName, f, n, d) :
        t \in {"msg_add_dns_cfg", "msg_del_dns_cfg"}, f \in {"AF_INET", "AF_INET6"},
        n \in {0, 2}, d \in {<<>>, <<"b">>}}
    \cup {DnsMsg("msg_add_dns_cfg", i, "AF_INET", 1, <<"b">>) : i \in {BadName, NoIface}}

WinsMsgs ==
    {WinsMsg(t, i, n) : t \in {"msg_add_wins_cfg", "msg_del_wins_cfg"},
                        i \in {ByName, BadName}, n \in {0, 2}}
    \cup {WinsMsg("msg_add_wins_cfg", NoIface, 1)}

MiscMsgs ==
    {RrbMsg(d, r) : d \in {"valid", "invalid"}, r \in {"valid", "invalid"}}
    \cup {IfaceMsg(t, i) : t \in {"msg_flush_neighbors", "msg_enable_dhcp", "msg_set_mtu"},
                           i \in {ByIndex, [index |-> 2, name |-> <<>>]}}
    \cup {Header("msg_register_dns"), Header("msg_unknown"),
          [Header("msg_unknown") EXCEPT !.size = Sizeof("header") + 1]}

\* The requests of an engine that is followed through its whole session.
LifeMsgs ==
    {AddressMsg("msg_add_address", ByIndex, 1), AddressMsg("msg_del_address", ByIndex, 1),
     Header("msg_unknown")}

\* An engine that only adds and removes the search domains `domains`.
DomainsMsgs(domains) ==
    {DnsMsg(t, ByName, "AF_INET", 0, domains) : t \in {"msg_add_dns_cfg", "msg_del_dns_cfg"}}

\* An engine that sets and removes name servers: one address up to one more
\* than the message holds.
ServersMsgs ==
    {[DnsMsg("msg_add_dns_cfg", ByName, f, n, <<>>) EXCEPT !.addr = a] :
        f \in {"AF_INET", "AF_INET6"}, n \in {1, 2, 3, 4, 5},
        a \in {<<1, 2, 3, 4>>, <<4, 3, 1, 2>>}}
    \cup {DnsMsg("msg_del_dns_cfg", ByName, f, 0, <<>>) : f \in {"AF_INET", "AF_INET6"}}

Workloads == {"net", "wfp", "dns", "wins", "misc"}

MsgsOf(w) ==
    CASE w = "net" -> NetMsgs
      [] w = "wfp" -> WfpMsgs
      [] w = "dns" -> DnsMsgs
      [] w = "wins" -> WinsMsgs
      [] w = "misc" -> MiscMsgs
      [] w = "life" -> LifeMsgs
      [] w = "domains_b" -> DomainsMsgs(<<"b">>)
      [] w = "domains_c" -> DomainsMsgs(<<"c">>)
      [] w = "servers" -> ServersMsgs

\* The representative of a workload that is also sent malformed.
ProbeOf(w) ==
    CASE w = "net" -> AddressMsg("msg_add_address", ByIndex, 1)
      [] w = "wfp" -> IfaceMsg("msg_add_wfp_block", ByIndex)
      [] w = "dns" -> DnsMsg("msg_add_dns_cfg", ByName, "AF_INET", 1, <<"b">>)
      [] w = "wins" -> WinsMsg("msg_add_wins_cfg", ByName, 2)
      [] w = "misc" -> Header("msg_register_dns")
      [] w = "life" -> AddressMsg("msg_add_address", ByIndex, 1)
      [] w = "domains_b" -> DnsMsg("msg_add_dns_cfg", ByName, "AF_INET", 0, <<"b">>)
      [] w = "domains_c" -> DnsMsg("msg_add_dns_cfg", ByName, "AF_INET", 0, <<"c">>)
      [] w = "servers" -> DnsMsg("msg_add_dns_cfg", ByName, "AF_INET", 1, <<>>)

\* What the message buffer may hold behind a frame that ends with the header.
ShortBodies(w) ==
    IF w = "misc"
    THEN {ProbeOf(w)}
    ELSE {ProbeOf(w), [ProbeOf(w) EXCEPT !.iface = NoIface]}

\* The frames of the probe that are not well-formed: a frame shorter than
\* the header, a frame whose header.size differs from its length, and
\* size-consistent frames that are shorter or longer than the variant.
ProbeFrames(w) ==
    {[bytes |-> Sizeof("header") - 1, msg |-> ProbeOf(w)],
     [bytes |-> ProbeOf(w).size + 1, msg |-> ProbeOf(w)],
     [bytes |-> ProbeOf(w).size + 1, msg |-> [ProbeOf(w) EXCEPT !.size = @ + 1]]}
    \cup {[bytes |-> Sizeof("header"), msg |-> [m EXCEPT !.size = Sizeof("header")]] :
            m \in ShortBodies(w)}

WellFormed(w) == {[bytes |-> m.size, msg |-> m] : m \in MsgsOf(w)}

FramesOf(w) == WellFormed(w) \cup ProbeFrames(w)

\* The allocations and system calls that may fail while m is handled.
FaultsOf(m) ==
    {"none"} \cup
    CASE m.type \in {"msg_add_address", "msg_del_address", "msg_add_route", "msg_del_route"} ->
            {"row"}
            \cup (IF m.iface.index = -1 /\ Len(m.iface.name) # 0 THEN {"wide_name"} ELSE {})
            \cup (IF m.type \in {"msg_add_address", "msg_add_route"} THEN {"item"} ELSE {})
      [] m.type = "msg_add_wfp_block" ->
            {"filters", "block_data", "item", "metric_v4", "metric_v6"}
      [] m.type \in {"msg_add_dns_cfg", "msg_del_dns_cfg"} ->
            (IF Len(m.iface.name) # 0 THEN {"wide_name"} ELSE {})
            \cup (IF m.type = "msg_add_dns_cfg" /\ m.addr_len > 0 THEN {"item"} ELSE {})
            \cup (IF m.type = "msg_add_dns_cfg" /\ Len(m.domains) # 0
                  THEN {"wide_domains", "domains_item"} ELSE {})
      [] m.type \in {"msg_add_wins_cfg", "msg_del_wins_cfg"} ->
            (IF Len(m.iface.name) # 0 THEN {"wide_name"} ELSE {})
            \cup (IF m.type = "msg_del_wins_cfg" \/ m.addr_len > 0 THEN {"netsh_delete"} ELSE {})
            \cup (IF m.type = "msg_add_wins_cfg" /\ m.addr_len > 0
                  THEN {"netsh_set", "item"} ELSE {})
      [] m.type = "msg_register_ring_buffers" -> {"maps", "map_send", "map_receive", "register", "item"}
      [] m.type = "msg_register_dns" -> {"thread"}
      [] m.type = "msg_enable_dhcp" -> {"cmdline"}
      [] OTHER -> {}

(***************************************************************************)
(* Session startup: the startup blob, option validation, the launch.       *)
(***************************************************************************)
\* What the worker writes back on the client pipe.
ReturnError(error) == [kind |-> "error", error |-> error]
\* ReturnError with GetLastError(), whose value the failed call decides.
ReturnLastError == [kind |-> "last_error", error |-> 0]
ReturnProcessId == [kind |-> "pid", error |-> 0]

\* The startup blob is a sequence of bytes; a WCHAR is two of them.
Blobs == UNION {[1..n -> {0, 1}] : n \in 0..MaxBlob}

\* data[i] of the WCHAR buffer the blob was read into.
WcharOf(blob, i) == blob[2 * i - 1] + 256 * blob[2 * i]

RECURSIVE wcslen(_, _, _)
\* wcslen of the string that starts at data[from]; the buffer ends at size.
wcslen(blob, from, size) ==
    IF from > size \/ WcharOf(blob, from) = 0
    THEN 0
    ELSE 1 + wcslen(blob, from + 1, size)

StartupFailed(report) == [ok |-> FALSE, reported |-> <<report>>]

\* The checks of GetStartupData behind the read, on size = bytes / sizeof(WCHAR).
ParseStartupData(blob, size, len) ==
    IF WcharOf(blob, size) # 0
    THEN StartupFailed(ReturnError(ERROR_STARTUP_DATA))
    ELSE IF size - len <= 0
    THEN StartupFailed(ReturnError(ERROR_STARTUP_DATA))
    ELSE IF size - len - (wcslen(blob, 1 + len, size) + 1) <= 0
    THEN StartupFailed(ReturnError(ERROR_STARTUP_DATA))
    ELSE [ok |-> TRUE, reported |-> <<>>]

\* GetStartupData: peek, allocate, read, then split the buffer in three strings.
GetStartupData(blob, fault) ==
    IF fault = "peek" \/ Len(blob) = 0
    THEN StartupFailed(ReturnLastError)
    ELSE IF Len(blob) \div 2 = 0
    THEN StartupFailed(ReturnError(ERROR_STARTUP_DATA))
    ELSE IF fault \in {"malloc", "read"}
    THEN StartupFailed(ReturnLastError)
    ELSE ParseStartupData(blob, Len(blob) \div 2, wcslen(blob, 1, Len(blob) \div 2) + 1)

\* The option vectors CommandLineToArgvW may give.  An argument is an option
\* CheckOption accepts, an option it rejects, or not an option at all.
Argvs ==
    {<<>>, <<"allowed">>, <<"denied">>, <<"allowed", "plain">>, <<"allowed", "denied">>,
     <<"plain", "denied">>}

\* ValidateOptions: FALSE when argv is NULL, TRUE without arguments; with one
\* argument ret is still FALSE at `goto out`; else every option must pass.
ValidateOptions(argv, fault) ==
    IF fault = "CommandLineToArgvW" THEN FALSE
    ELSE IF Len(argv) < 1 THEN TRUE
    ELSE IF Len(argv) = 1 THEN FALSE
    ELSE \A i \in 1..Len(argv) : argv[i] # "denied"

\* A faulty variant of Rejected: no client is turned away.
RejectedNever(valid, authorized) == FALSE

\* The condition under which RunOpenvpn reports ERROR_STARTUP_DATA.
Rejected(valid, authorized) == ~valid /\ ~authorized

\* A faulty variant of Launch: the engine is created before the options are
\* validated.
LaunchUnvalidated(argv, authorized, fault) ==
    IF fault \in {"token", "CreateProcessAsUser"}
    THEN [engine |-> "none", reported |-> <<ReturnLastError>>, phase |-> "done"]
    ELSE IF fault = "RevertToSelf"
    THEN [engine |-> "terminated", reported |-> <<ReturnLastError>>, phase |-> "done"]
    ELSE [engine |-> "running", reported |-> <<ReturnProcessId>>, phase |-> "serve"]

\* RunOpenvpn from the tokens to ReturnProcessId: [engine, reported, phase].
Launch(argv, authorized, fault) ==
    IF fault = "token"
    THEN [engine |-> "none", reported |-> <<ReturnLastError>>, phase |-> "done"]
    ELSE IF Rejected(ValidateOptions(argv, fault), authorized)
    THEN [engine |-> "none", reported |-> <<ReturnError(ERROR_STARTUP_DATA)>>, phase |-> "done"]
    ELSE IF fault = "CreateProcessAsUser"
    THEN [engine |-> "none", reported |-> <<ReturnLastError>>, phase |-> "done"]
    ELSE IF fault = "RevertToSelf"
    THEN [engine |-> "terminated", reported |-> <<ReturnLastError>>, phase |-> "done"]
    ELSE [engine |-> "running", reported |-> <<ReturnProcessId>>, phase |-> "serve"]

\* A faulty variant of StopEngine: the engine is left alone.
StopEngineNoTerminate(engine) == [engine |-> engine, reported |-> <<>>]

\* After the loop: the exit code decides between TerminateProcess, the
\* report of ERROR_OPENVPN_STARTUP and nothing.
StopEngine(engine) ==
    IF engine = "running"
    THEN [engine |-> "terminated", reported |-> <<>>]
    ELSE IF engine = "failed"
    THEN [engine |-> engine, reported |-> <<ReturnError(ERROR_OPENVPN_STARTUP)>>]
    ELSE [engine |-> engine, reported |-> <<>>]

(***************************************************************************)
(* The engine pipe: a queue of message ids, oldest first.                  *)
(***************************************************************************)
\* message_id of the request that follows the one with message_id id.
NextId(id) == (id % MaxId) + 1

\* A faulty variant of ReadFile: the newest message is taken.
ReadFileNewest(pipe) == [message_id |-> pipe[Len(pipe)], pipe |-> SubSeq(pipe, 1, Len(pipe) - 1)]

\* ReadFile on a message pipe takes the oldest message.
ReadFile(pipe) == [message_id |-> Head(pipe), pipe |-> Tail(pipe)]

\* A faulty variant of AcquireSemaphore: the count of the semaphore is not taken.
AcquireSemaphoreNoCount(o) ==
    [o EXCEPT !.rdnsWaiting = @ - 1, !.rdnsRunning = @ + 1]

\* WaitForMultipleObjects returned WAIT_OBJECT_0 in RegisterDNS: the thread
\* holds the only count of rdns_semaphore.
AcquireSemaphore(o) ==
    [o EXCEPT !.rdnsWaiting = @ - 1, !.rdnsRunning = @ + 1, !.rdnsSemaphore = @ - 1]

(***************************************************************************)
(* The dispatcher: ServiceStartInteractive, its pipe instances, its worker *)
(* threads and its wait handles.                                           *)
(***************************************************************************)
\* Handles the array of UpdateWaitHandles starts with and grows by.
WaitHandlesStep == 2

\* The handles CreateThread returns, in the order it returns them.
ThreadHandles == <<"t1", "t2">>

\* A thread handle no thread was created for.
NoThread == [state |-> "none", pipe |-> 0, closed |-> 0]

\* ServiceStartInteractive has not run yet.
NoService ==
    [pc |-> "start", threads |-> <<>>, handles |-> <<>>, size |-> WaitHandlesStep,
     pipe |-> 0, pipes |-> <<>>, io_event |-> FALSE,
     thread |-> [h \in {"t1", "t2"} |-> NoThread], events |-> "none"]

\* The loop of UpdateWaitHandles over the thread list: the array grows by
\* WaitHandlesStep when it is full, and the count is what was filled so far
\* when realloc fails.
RECURSIVE WaitHandlesFilled(_, _, _, _)
WaitHandlesFilled(handles, threads, size, failed) ==
    IF threads = <<>>
    THEN [err |-> 0, handles |-> handles, size |-> size]
    ELSE IF Len(handles) = size /\ failed
    THEN [err |-> ERROR_OUTOFMEMORY, handles |-> handles, size |-> size]
    ELSE WaitHandlesFilled(Append(handles, Head(threads)), Tail(threads),
                           IF Len(handles) = size THEN size + WaitHandlesStep ELSE size,
                           failed)

\* A faulty variant of UpdateWaitHandles: exit_event is waited for whether
\* or not there are threads.
UpdateWaitHandlesWithExit(handles, size, threads, failed) ==
    IF handles = <<>> /\ failed
    THEN [err |-> ERROR_OUTOFMEMORY, handles |-> <<>>, size |-> size]
    ELSE WaitHandlesFilled(<<"io_event", "exit_event">>, threads, size, failed)

\* UpdateWaitHandles: io_event first, exit_event when there is no thread,
\* then the handle of every thread of the list.  `handles` is <<>> while
\* the array is not allocated; `failed` makes malloc or realloc fail.
UpdateWaitHandles(handles, size, threads, failed) ==
    IF handles = <<>> /\ failed
    THEN [err |-> ERROR_OUTOFMEMORY, handles |-> <<>>, size |-> size]
    ELSE WaitHandlesFilled(IF threads = <<>> THEN <<"io_event", "exit_event">>
                           ELSE <<"io_event">>, threads, size, failed)

\* CreateClientPipeInstance: a new instance of the service pipe that
\* listens, or INVALID_HANDLE_VALUE.  Pipe handles are the numbers of the
\* instances, 0 is INVALID_HANDLE_VALUE.
CreateClientPipeInstance(pipes, failed) ==
    IF failed
    THEN [pipe |-> 0, pipes |-> pipes]
    ELSE [pipe |-> Len(pipes) + 1,
          pipes |-> Append(pipes, [state |-> "listening", reported |-> <<>>])]

\* The dispatcher waits for clients; the workers of `connected`, the
\* sessions 1..n, were spawned in this order and run.
ServiceRunning(connected) ==
    [pc |-> "wait",
     threads |-> [i \in 1..Cardinality(connected) |->
                    ThreadHandles[Cardinality(connected) + 1 - i]],
     handles |-> IF connected = {} THEN <<"io_event", "exit_event">>
                 ELSE <<"io_event">> \o [i \in 1..Cardinality(connected) |->
                                           ThreadHandles[Cardinality(connected) + 1 - i]],
     size |-> WaitHandlesStep * ((Cardinality(connected) + WaitHandlesStep) \div WaitHandlesStep),
     pipe |-> Cardinality(connected) + 1,
     pipes |-> [i \in 1..(Cardinality(connected) + 1) |->
                  [state |-> IF i \in connected THEN "connected" ELSE "listening",
                   reported |-> <<>>]],
     io_event |-> FALSE,
     thread |-> [h \in {"t1", "t2"} |->
                   IF \E i \in connected : ThreadHandles[i] = h
                   THEN [state |-> "running", closed |-> 0,
                         pipe |-> CHOOSE i \in connected : ThreadHandles[i] = h]
                   ELSE NoThread],
     events |-> "open"]

(***************************************************************************)
(* Initial state.                                                          *)
(***************************************************************************)
NoRequest ==
    [bytes |-> 0, read |-> 0, msg |-> [type |-> "none", size |-> 0, message_id |-> 0],
     fault |-> "none"]
NoAck == [message_id |-> 0, error_number |-> 0]

\* The shortest blob GetStartupData accepts: three empty strings.
EmptyStartupData == <<0, 0, 0, 0, 0, 0>>

\* A session nobody connected to, or one that waits for its startup blob.
NoRun ==
    [blob |-> EmptyStartupData, argv |-> <<>>, authorized |-> FALSE, fault |-> "none",
     engine |-> "none", reported |-> <<>>, pipe |-> <<>>, sent |-> 0, handled |-> 0,
     owed |-> 0, ackbuf |-> NoAck]

\* A session whose engine was launched with EmptyStartupData.
Launched == [NoRun EXCEPT !.engine = "running", !.reported = <<ReturnProcessId>>]

\* The OS with the given group-policy and system-wide search lists.
InitialOs(gpol, system) ==
    [addrs |-> {}, routes |-> {}, filters |-> {},
     metric |-> [k \in {<<1, "AF_INET">>, <<1, "AF_INET6">>} |->
                    IF k[2] = "AF_INET" THEN 1 ELSE 0],
     wins |-> [n \in {<<"t">>} |-> <<>>],
     views |-> {}, dhcp |-> {},
     mtu |-> [k \in {<<1, "AF_INET">>} |-> 1],
     rdnsWaiting |-> 0, rdnsRunning |-> 0, rdnsSemaphore |-> 1,
     nameServer |-> [k \in {<<"{1}", "Tcpip">>, <<"{1}", "Tcpip6">>} |-> <<>>],
     searchList |-> [k \in {"gpol", "system", "{1}"} |->
                        IF k = "gpol" THEN gpol ELSE IF k = "system" THEN system ELSE NoValue],
     initialList |-> [k \in {"gpol", "system", "{1}"} |-> NoValue],
     reload |-> "none", data |-> <<>>]

\* The OS whose tunnel interface has its IPv6 stack disabled: the interface
\* has no IPv6 metric to read or to set.
Ipv6Disabled(o) == [o EXCEPT !.metric = [k \in {<<1, "AF_INET">>} |-> o.metric[k]]]

\* The search lists the registry holds when the service starts.
InitialSearchLists ==
    {<<NoValue, NoValue>>, <<RegSz(<<"a">>), NoValue>>,
     <<RegSz(<<"a", ",", "b">>), NoValue>>, <<NoValue, RegSz(<<"b">>)>>,
     <<RegSz(<<"a", ".", "a", ".", "a", ".", "a">>), NoValue>>}

\* The sessions of `connected` are in their serve loop, the engine launched.
InitWith(connected) ==
    /\ phase = [s \in Sessions |-> IF s \in connected THEN "serve" ELSE "none"]
    /\ lists = [s \in Sessions |-> EmptyLists]
    /\ req = [s \in Sessions |-> NoRequest]
    /\ ack = [s \in Sessions |-> NoAck]
    /\ undoLog = [s \in Sessions |-> <<>>]
    /\ workload \in [Sessions -> Workloads \cup {"none"}]
    /\ \A s \in Sessions : workload[s] = "none" <=> s \notin connected
    /\ \E sl \in InitialSearchLists, ipv6 \in BOOLEAN :
          /\ os = IF ipv6 THEN InitialOs(sl[1], sl[2]) ELSE Ipv6Disabled(InitialOs(sl[1], sl[2]))
          /\ (\A s \in Sessions : workload[s] # "dns") => sl = <<NoValue, NoValue>>
          /\ (\A s \in Sessions : workload[s] # "wfp") => ipv6
    /\ run = [s \in Sessions |-> IF s \in connected THEN Launched ELSE NoRun]
    /\ exit_event = FALSE
    /\ svc = ServiceRunning(connected)

Init == InitWith({1})

\* The sessions of `connected` have their startup blob in the client pipe.
\* The option vector is the one of the blob's option string, so it is empty
\* unless the blob is EmptyStartupData followed by an odd byte or a string;
\* an engine that sends requests was launched from EmptyStartupData.
ConnectWith(connected) ==
    /\ phase = [s \in Sessions |-> IF s \in connected THEN "startup" ELSE "none"]
    /\ lists = [s \in Sessions |-> EmptyLists]
    /\ req = [s \in Sessions |-> NoRequest]
    /\ ack = [s \in Sessions |-> NoAck]
    /\ undoLog = [s \in Sessions |-> <<>>]
    /\ workload \in [Sessions -> {"life", "none"}]
    /\ \A s \in Sessions : s \notin connected => workload[s] = "none"
    /\ os = InitialOs(NoValue, NoValue)
    /\ \E b \in Blobs, a \in Argvs, u \in BOOLEAN :
          /\ a # <<>> => GetStartupData(b, "none").ok
          /\ run = [s \in Sessions |->
                      IF s \in connected /\ workload[s] = "none"
                      THEN [NoRun EXCEPT !.blob = b, !.argv = a, !.authorized = u]
                      ELSE NoRun]
    /\ exit_event = FALSE
    /\ svc = ServiceRunning(connected)

Connect == ConnectWith({1})

(***************************************************************************)
(* The worker: RunOpenvpn's serve loop and teardown.                       *)
(***************************************************************************)
\* PeekNamedPipeAsync returned the length of a request that fits the
\* message buffer: HandleMessage reads it, handles it and writes the ack.
Serve(s) ==
    /\ phase[s] = "serve"
    /\ \E f \in FramesOf(workload[s]), readOk \in BOOLEAN :
          /\ f.bytes <= Sizeof("pipe_message_t")
          /\ ~readOk => f \in ProbeFrames(workload[s])
          /\ \E fault \in IF readOk /\ f \in WellFormed(workload[s])
                          THEN FaultsOf(f.msg) ELSE {"none"} :
                \E r \in {HandleMessage(f.bytes, IF readOk THEN f.bytes ELSE 0,
                                        f.msg, lists[s], os, fault)} :
                   /\ \A k \in UndoKindSet : Len(r.lists[k]) <= MaxUndo
                   /\ r.os.rdnsWaiting + r.os.rdnsRunning <= MaxThreads
                   /\ lists' = [lists EXCEPT ![s] = r.lists]
                   /\ req' = [req EXCEPT ![s] = [bytes |-> f.bytes,
                                                 read |-> IF readOk THEN f.bytes ELSE 0,
                                                 msg |-> f.msg, fault |-> fault]]
                   /\ ack' = [ack EXCEPT ![s] = r.ack]
                   /\ os' = r.os
    /\ UNCHANGED <<phase, undoLog, workload, run, exit_event, svc>>

\* The peek returned 0 bytes: the engine closed the pipe, the I/O failed or
\* exit_event was set.
PeekZero(s) ==
    /\ phase[s] = "serve"
    /\ phase' = [phase EXCEPT ![s] = "teardown"]
    /\ req' = [req EXCEPT ![s].bytes = 0]
    /\ UNCHANGED <<lists, ack, undoLog, workload, os, run, exit_event, svc>>

\* The peek returned more bytes than the message buffer holds.
PeekOversized(s) ==
    /\ phase[s] = "serve"
    /\ phase' = [phase EXCEPT ![s] = "teardown"]
    /\ req' = [req EXCEPT ![s].bytes = Sizeof("pipe_message_t") + 1]
    /\ UNCHANGED <<lists, ack, undoLog, workload, os, run, exit_event, svc>>

\* After the loop: the engine is waited for and stopped, then Undo replays
\* the lists and unlinks every item it processed.
Teardown(s) ==
    /\ phase[s] = "teardown"
    /\ \E u \in {Undo(lists[s], os)} :
          /\ os' = u.os
          /\ undoLog' = [undoLog EXCEPT ![s] = u.log]
          /\ lists' = [lists EXCEPT ![s] = u.lists]
    /\ \E e \in {StopEngine(run[s].engine)} :
          run' = [run EXCEPT ![s].engine = e.engine,
                             ![s].reported = run[s].reported \o e.reported]
    /\ phase' = [phase EXCEPT ![s] = "done"]
    /\ UNCHANGED <<req, ack, workload, exit_event, svc>>

(***************************************************************************)
(* The RegisterDNS threads.                                                *)
(***************************************************************************)
\* WaitForMultipleObjects returned WAIT_OBJECT_0: the semaphore is locked.
RegisterDNSLock ==
    /\ os.rdnsWaiting > 0
    /\ os.rdnsSemaphore > 0
    /\ os' = AcquireSemaphore(os)
    /\ UNCHANGED <<phase, lists, req, ack, undoLog, workload, run, exit_event, svc>>

\* The two ipconfig commands ran; ReleaseSemaphore and the thread ends.
RegisterDNSRelease ==
    /\ os.rdnsRunning > 0
    /\ os' = [os EXCEPT !.rdnsRunning = @ - 1, !.rdnsSemaphore = @ + 1]
    /\ UNCHANGED <<phase, lists, req, ack, undoLog, workload, run, exit_event, svc>>

\* The wait timed out or exit_event was set: the thread ends.
RegisterDNSGiveUp ==
    /\ os.rdnsWaiting > 0
    /\ os' = [os EXCEPT !.rdnsWaiting = @ - 1]
    /\ UNCHANGED <<phase, lists, req, ack, undoLog, workload, run, exit_event, svc>>

Next ==
    \/ \E s \in Sessions : Serve(s)
    \/ \E s \in Sessions : PeekZero(s)
    \/ \E s \in Sessions : PeekOversized(s)
    \/ \E s \in Sessions : Teardown(s)
    \/ RegisterDNSLock
    \/ RegisterDNSRelease
    \/ RegisterDNSGiveUp

Spec == Init /\ [][Next]_vars

(***************************************************************************)
(* The session step by step: startup, launch, and the pipe operations of   *)
(* the serve loop one at a time, next to the engine and the service        *)
(* control handler.                                                        *)
(***************************************************************************)
\* GetStartupData at the head of RunOpenvpn; FALSE ends the session at `out`.
ReadStartupData(s) ==
    /\ phase[s] = "startup"
    /\ \E fault \in {"none", "peek", "malloc", "read"} :
          \E r \in {GetStartupData(run[s].blob, fault)} :
             /\ run' = [run EXCEPT ![s].reported = r.reported, ![s].fault = fault]
             /\ phase' = [phase EXCEPT ![s] = IF r.ok THEN "start" ELSE "done"]
    /\ UNCHANGED <<lists, req, ack, undoLog, workload, os, exit_event, svc>>

\* RunOpenvpn from the security descriptor to ReturnProcessId.
StartEngine(s) ==
    /\ phase[s] = "start"
    /\ \E fault \in {"none", "token", "CommandLineToArgvW", "CreateProcessAsUser",
                     "RevertToSelf"} :
          \E r \in {Launch(run[s].argv, run[s].authorized, fault)} :
             /\ run' = [run EXCEPT ![s].engine = r.engine, ![s].reported = r.reported,
                                   ![s].fault = fault]
             /\ phase' = [phase EXCEPT ![s] = r.phase]
    /\ UNCHANGED <<lists, req, ack, undoLog, workload, os, exit_event, svc>>

\* The engine writes a request to its end of the pipe without waiting for
\* the ack of the one before.
EngineWrites(s) ==
    /\ run[s].engine = "running"
    /\ phase[s] \in {"serve", "read", "ack"}
    /\ workload[s] # "none"
    /\ Len(run[s].pipe) < MaxPending
    /\ run' = [run EXCEPT ![s].pipe = Append(@, NextId(run[s].sent)),
                          ![s].sent = NextId(@)]
    /\ UNCHANGED <<phase, lists, req, ack, undoLog, workload, os, exit_event, svc>>

\* The engine exits, with exit code 0 or not; its end of the pipe is closed.
EngineExits(s) ==
    /\ run[s].engine = "running"
    /\ phase[s] \in {"serve", "read", "ack", "teardown"}
    /\ \E e \in {"exited", "failed"} : run' = [run EXCEPT ![s].engine = e]
    /\ UNCHANGED <<phase, lists, req, ack, undoLog, workload, os, exit_event, svc>>

\* SERVICE_CONTROL_STOP: SetEvent(exit_event).
ServiceCtrlInteractive ==
    /\ svc.events = "open"
    /\ ~exit_event
    /\ exit_event' = TRUE
    /\ UNCHANGED <<phase, lists, req, ack, undoLog, workload, os, run, svc>>

\* What PeekNamedPipeAsync returns: io_event is handles[0] of the wait, so a
\* pending message is reported whether or not exit_event is signalled; with
\* nothing pending the wait ends on exit_event, or the ReadFile fails on a
\* closed pipe, and the result is 0.
PeekNamedPipeAsync(pending, fault) == IF fault THEN 0 ELSE pending

\* The frames the engine may have written: those of its workload and one
\* that is larger than the message buffer.
PendingFrames(w) ==
    FramesOf(w) \cup {[bytes |-> Sizeof("pipe_message_t") + 1, msg |-> ProbeOf(w)]}

\* The head of the loop: the peek, the two breaks, else on to HandleMessage.
PeekRequest(s) ==
    /\ phase[s] = "serve"
    /\ \E fault \in BOOLEAN :
          /\ ~fault => \/ run[s].pipe # <<>>
                       \/ exit_event
                       \/ run[s].engine # "running"
          /\ \E f \in IF run[s].pipe # <<>> /\ ~fault
                      THEN PendingFrames(workload[s])
                      ELSE {[bytes |-> 0, msg |-> NoRequest.msg]} :
                \E bytes \in {PeekNamedPipeAsync(f.bytes, fault)} :
                   /\ req' = [req EXCEPT ![s] =
                                 [bytes |-> bytes, read |-> 0,
                                  msg |-> IF bytes = 0 THEN f.msg
                                          ELSE [f.msg EXCEPT !.message_id = Head(run[s].pipe)],
                                  fault |-> "none"]]
                   /\ phase' = [phase EXCEPT ![s] =
                                   IF bytes = 0 \/ bytes > Sizeof("pipe_message_t")
                                   THEN "teardown" ELSE "read"]
    /\ UNCHANGED <<lists, ack, undoLog, workload, os, run, exit_event, svc>>

\* HandleMessage up to the label out: the read, the header check, the handler.
ReadRequest(s) ==
    /\ phase[s] = "read"
    /\ \E readOk \in BOOLEAN :
          \E fault \in IF readOk /\ [bytes |-> req[s].bytes, msg |-> [req[s].msg EXCEPT !.message_id = 1]]
                                      \in WellFormed(workload[s])
                       THEN FaultsOf(req[s].msg) ELSE {"none"} :
             \E r \in {HandleMessage(req[s].bytes, IF readOk THEN req[s].bytes ELSE 0,
                                     req[s].msg, lists[s], os, fault)} :
                /\ \A k \in UndoKindSet : Len(r.lists[k]) <= MaxUndo
                /\ lists' = [lists EXCEPT ![s] = r.lists]
                /\ os' = r.os
                /\ req' = [req EXCEPT ![s].read = IF readOk THEN req[s].bytes ELSE 0,
                                      ![s].fault = fault]
                /\ \E m \in {IF readOk THEN ReadFile(run[s].pipe)
                             ELSE [message_id |-> 0, pipe |-> run[s].pipe]} :
                      run' = [run EXCEPT ![s].pipe = m.pipe,
                                         ![s].handled = IF readOk THEN m.message_id ELSE @,
                                         ![s].owed = @ + 1,
                                         ![s].ackbuf = r.ack]
    /\ phase' = [phase EXCEPT ![s] = "ack"]
    /\ UNCHANGED <<ack, undoLog, workload, exit_event, svc>>

\* A faulty variant of AfterAck: an ack that reports a malformed request
\* ends the loop.
AfterAckLeavesOnError(a) ==
    IF a.error_number \in {ERROR_MESSAGE_DATA, ERROR_MESSAGE_TYPE} THEN "teardown" ELSE "serve"

\* HandleMessage returns nothing: whatever the ack says, the loop goes on
\* with the next peek.
AfterAck(a) == "serve"

\* HandleMessage at the label out: WritePipeAsync of the ack.
WriteAck(s) ==
    /\ phase[s] = "ack"
    /\ ack' = [ack EXCEPT ![s] = run[s].ackbuf]
    /\ run' = [run EXCEPT ![s].owed = @ - 1, ![s].ackbuf = NoAck]
    /\ phase' = [phase EXCEPT ![s] = AfterAck(run[s].ackbuf)]
    /\ UNCHANGED <<lists, req, undoLog, workload, os, exit_event, svc>>

Step ==
    \/ \E s \in Sessions : ReadStartupData(s)
    \/ \E s \in Sessions : StartEngine(s)
    \/ \E s \in Sessions : EngineWrites(s)
    \/ \E s \in Sessions : EngineExits(s)
    \/ ServiceCtrlInteractive
    \/ \E s \in Sessions : PeekRequest(s)
    \/ \E s \in Sessions : ReadRequest(s)
    \/ \E s \in Sessions : WriteAck(s)
    \/ \E s \in Sessions : Teardown(s)

Session == Connect /\ [][Step]_vars

\* A step of the worker thread of s inside its serve loop.
ServeLoop(s) == PeekRequest(s) \/ ReadRequest(s) \/ WriteAck(s)

\* The worker threads are scheduled: a worker that can take the next step of
\* its loop takes it.  Nothing is assumed about the engine or the service
\* control handler.
FairSession == Session /\ \A s \in Sessions : WF_vars(ServeLoop(s))

(***************************************************************************)
(* Properties of the worker.                                               *)
(***************************************************************************)
\* A step of the serve loop of s that handled one request: the worker stays
\* in the loop and no RegisterDNS thread took a step.
ServeStep(s) ==
    /\ phase[s] = "serve"
    /\ phase'[s] = "serve"
    /\ os'.rdnsRunning = os.rdnsRunning
    /\ os'.rdnsWaiting >= os.rdnsWaiting

\* The system state the handlers change: addresses, routes, NameServer,
\* SearchList and InitialSearchList values, WINS settings, filters, interface
\* metrics and ring mappings.
Touched(o) ==
    <<o.addrs, o.routes, o.nameServer, o.searchList, o.initialList, o.wins,
      o.filters, o.metric, o.views>>

\* The number of records in the ledger.
LedgerSize(l) ==
    Len(l.address) + Len(l.route) + Len(l.wfp_block) + Len(l.undo_dns4)
    + Len(l.undo_dns6) + Len(l.undo_domains) + Len(l.undo_ring_buffer) + Len(l.undo_wins)

\* b is a with one item taken out.
OneRemoved(a, b) ==
    \E i \in 1..Len(a) : b = SubSeq(a, 1, i - 1) \o SubSeq(a, i + 1, Len(a))

\* The records of kind k among those Undo processed, in the order it did.
Undone(log, k) ==
    LET picked == SelectSeq(log, LAMBDA e : e.type = k)
    IN  [i \in 1..Len(picked) |-> picked[i].data]

\* C1: once a worker has finished teardown no address and no route is left
\* in the OS tables.  The tables are empty when the service starts and this
\* worker is the only one that writes them, so every entry they ever hold was
\* created by a successful add_address or add_route of the session.
C1_TeardownDeletesAddressesAndRoutes ==
    \A s \in Sessions : phase[s] = "done" => os.addrs = {} /\ os.routes = {}

\* A teardown that processed an address record and a route record.
C1_Witness ==
    /\ phase[1] = "done"
    /\ \E i, j \in DOMAIN undoLog[1] :
          undoLog[1][i].type = "address" /\ undoLog[1][j].type = "route"

\* C2: when the last request of a session was an add_dns_cfg with at least
\* one address that was acknowledged with 0, then after teardown the
\* NameServer value of the interface and family of that request is empty.
C2_NameServerEmptyAfterTeardown ==
    \A s \in Sessions :
        (/\ phase[s] = "done"
         /\ req[s].msg.type = "msg_add_dns_cfg"
         /\ req[s].msg.size = Sizeof("dns")
         /\ req[s].read = req[s].msg.size
         /\ ack[s].error_number = 0
         /\ req[s].msg.addr_len > 0)
        => os.nameServer[<<InterfaceIdString(req[s].msg.iface.name, "none").iid,
                           GetInterfacesKey(req[s].msg.family)>>] = <<>>

\* C3: in a state with a valid search list at the chosen scope, no
\* InitialSearchList and no domains of this session, a successful add_dns_cfg
\* with domains D followed by the removal of the domains (a del_dns_cfg with
\* a non-empty domains field, or teardown) leaves every SearchList as it was
\* and no InitialSearchList.
C3_SearchListRestored ==
    \A s \in Sessions :
        (/\ phase[s] = "serve"
         /\ workload[s] = "dns"
         /\ lists[s].undo_domains = <<>>
         /\ \A k \in DOMAIN os.initialList : ~os.initialList[k].set
         /\ GetDnsSearchListKey(ByName.name, os).have_list)
        => \A m \in {x \in DnsMsgs : /\ x.type = "msg_add_dns_cfg"
                                     /\ x.iface = ByName
                                     /\ x.addr_len = 0
                                     /\ Len(x.domains) # 0} :
              \A a \in {HandleMessage(m.size, m.size, m, lists[s], os, "none")} :
                 a.ack.error_number = 0
                 => /\ \A d \in {HandleMessage(m.size, m.size,
                                               [m EXCEPT !.type = "msg_del_dns_cfg"],
                                               a.lists, a.os, "none")} :
                          /\ d.ack.error_number = 0
                          /\ d.os.searchList = os.searchList
                          /\ d.os.initialList = os.initialList
                    /\ \A u \in {Undo(a.lists, a.os)} :
                          /\ u.os.searchList = os.searchList
                          /\ u.os.initialList = os.initialList

\* C4: in every state of the serve loop, an add_address or add_route that
\* succeeds, followed immediately by the del request with the same
\* parameters, is followed by a successful del that leaves the OS tables and
\* the undo lists as they were before the add.
C4_AddThenDelRestores ==
    \A s \in Sessions :
        (phase[s] = "serve" /\ workload[s] = "net")
        => \A m \in {x \in NetMsgs : x.type \in {"msg_add_address", "msg_add_route"}} :
              \A a \in {HandleMessage(m.size, m.size, m, lists[s], os, "none")} :
                 a.ack.error_number = 0
                 => \A d \in {HandleMessage(m.size, m.size,
                                 [m EXCEPT !.type = IF m.type = "msg_add_address"
                                                    THEN "msg_del_address"
                                                    ELSE "msg_del_route"],
                                 a.lists, a.os, "none")} :
                       /\ d.ack.error_number = 0
                       /\ d.os = os
                       /\ d.lists = lists[s]

\* A state of the serve loop whose ledger already holds an address record
\* and in which a further add_address succeeds and its del succeeds.
C4_Witness ==
    /\ phase[1] = "serve"
    /\ workload[1] = "net"
    /\ lists[1].address # <<>>
    /\ os.addrs # {}
    /\ \E m \in {x \in NetMsgs : x.type = "msg_add_address"} :
          \E a \in {HandleMessage(m.size, m.size, m, lists[1], os, "none")} :
             /\ a.ack.error_number = 0
             /\ Len(a.lists.address) = Len(lists[1].address) + 1
             /\ HandleMessage(m.size, m.size, [m EXCEPT !.type = "msg_del_address"],
                              a.lists, a.os, "none").ack.error_number = 0

\* C5: a request changes an undo list only by taking one record out and by
\* linking one new record in front of the others, so that every list holds
\* its surviving records in the reverse of the order in which they were
\* appended; and teardown processes the records of each kind from the head
\* of the list to its end, each record once.
C5_UndoInReverseAppendOrder ==
    [][\A s \in Sessions :
          /\ ServeStep(s)
             => \A k \in UndoKindSet :
                   \/ lists'[s][k] = lists[s][k]
                   \/ OneRemoved(lists[s][k], lists'[s][k])
                   \/ /\ lists'[s][k] # <<>>
                      /\ \/ Tail(lists'[s][k]) = lists[s][k]
                         \/ OneRemoved(lists[s][k], Tail(lists'[s][k]))
          /\ (phase[s] = "teardown" /\ phase'[s] = "done")
             => \A k \in UndoKindSet : Undone(undoLog'[s], k) = lists[s][k]
      ]_vars

\* A teardown that processed two different records of one kind.
C5_Witness ==
    /\ phase[1] = "done"
    /\ \E i, j \in DOMAIN undoLog[1] :
          /\ i < j
          /\ undoLog[1][i].type = undoLog[1][j].type
          /\ undoLog[1][i].data # undoLog[1][j].data

NetFails(m, o) ==
    \/ m.iface.index = -1 /\ m.iface.name # <<"t">>
    \/ /\ m.type = "msg_add_address"
       /\ [itf |-> 1, address |-> <<m.family, m.address>>] \in o.addrs
    \/ /\ m.type = "msg_del_address"
       /\ [itf |-> 1, address |-> <<m.family, m.address>>] \notin o.addrs
    \/ /\ m.type = "msg_add_route"
       /\ [itf |-> 1, prefix |-> <<m.family, m.prefix, m.prefix_len>>,
           gateway |-> <<m.family, m.gateway>>] \in o.routes
    \/ /\ m.type = "msg_del_route"
       /\ [itf |-> 1, prefix |-> <<m.family, m.prefix, m.prefix_len>>,
           gateway |-> <<m.family, m.gateway>>] \notin o.routes

\* C7: for add_address, del_address, add_route and del_route, a failing
\* interface resolution or OS primitive makes the ack carry a non-zero
\* error, a failing allocation the out-of-memory code, and a request
\* acknowledged with a non-zero error leaves the undo lists and the OS state
\* as they were: an entry created before the failed AddListItem is deleted
\* again.
C7_NetFailureLeavesNoTrace ==
    [][\A s \in Sessions :
          (/\ ServeStep(s)
           /\ req'[s].msg.type \in {"msg_add_address", "msg_del_address",
                                    "msg_add_route", "msg_del_route"})
          => /\ req'[s].read = Sizeof(VariantOf(req'[s].msg.type)) /\ NetFails(req'[s].msg, os)
                => ack'[s].error_number # 0
             /\ req'[s].fault # "none"
                => \/ ack'[s].error_number = ERROR_OUTOFMEMORY
                   \/ req'[s].fault = "item" /\ NetFails(req'[s].msg, os)
                      /\ ack'[s].error_number # 0
             /\ ack'[s].error_number # 0 => lists'[s] = lists[s] /\ os' = os
      ]_vars

\* An add_address whose AddListItem failed, with another address of the
\* session in the table and in the ledger.
C7_Witness ==
    /\ phase[1] = "serve"
    /\ req[1].msg.type = "msg_add_address"
    /\ req[1].fault = "item"
    /\ ack[1].error_number = ERROR_OUTOFMEMORY
    /\ lists[1].address # <<>>
    /\ os.addrs # {}

\* C8: a request acknowledged with a non-zero error leaves the system state
\* the handlers change and the undo lists as they were before it.
C8_FailureLeavesNoPartialChange ==
    [][\A s \in Sessions :
          (ServeStep(s) /\ ack'[s].error_number # 0)
          => lists'[s] = lists[s] /\ Touched(os') = Touched(os)
      ]_vars

\* C9: when the number of bytes read differs from header.size, or
\* header.size differs from the size of the variant header.type selects, the
\* ack carries ERROR_MESSAGE_DATA and the undo lists and the system state are
\* as they were; this for every known request type.
C9_MalformedFrameIsRejected ==
    [][\A s \in Sessions :
          (/\ ServeStep(s)
           /\ req'[s].msg.type \in KnownTypes
           /\ \/ req'[s].read # req'[s].msg.size
              \/ req'[s].msg.size # Sizeof(VariantOf(req'[s].msg.type)))
          => /\ ack'[s].error_number = ERROR_MESSAGE_DATA
             /\ lists'[s] = lists[s]
             /\ Touched(os') = Touched(os)
             /\ os'.rdnsWaiting = os.rdnsWaiting
      ]_vars

\* C10: a request whose header is size-consistent and whose type is none of
\* the request types is acknowledged with ERROR_MESSAGE_TYPE under its own
\* message id, and the undo lists and the OS state are as they were.
C10_UnknownTypeIsRejected ==
    [][\A s \in Sessions :
          (/\ ServeStep(s)
           /\ req'[s].msg.type = "msg_unknown"
           /\ req'[s].read = req'[s].bytes
           /\ req'[s].read = req'[s].msg.size
           /\ req'[s].read >= Sizeof("header"))
          => /\ ack'[s] = [message_id |-> req'[s].msg.message_id,
                           error_number |-> ERROR_MESSAGE_TYPE]
             /\ lists'[s] = lists[s]
             /\ os' = os
      ]_vars

\* A request of an unknown type, longer than a header, was acknowledged
\* while the ledger held a record.
C10_Witness ==
    /\ phase[1] = "serve"
    /\ req[1].msg.type = "msg_unknown"
    /\ req[1].read = Sizeof("header") + 1
    /\ ack[1].error_number = ERROR_MESSAGE_TYPE
    /\ lists[1].undo_ring_buffer # <<>>

(***************************************************************************)
(* Properties of the RegisterDNS threads and of the DNS handlers.          *)
(***************************************************************************)
\* C11: at any time at most one RegisterDNS thread, of whatever session, is
\* between acquiring and releasing rdns_semaphore, where the two ipconfig
\* commands run; a thread starts running them only by taking the count of
\* the semaphore, so one that gave up the wait runs neither.
C11_OneThreadRunsIpconfig ==
    [][/\ os'.rdnsRunning <= 1
       /\ os'.rdnsRunning > os.rdnsRunning =>
             /\ os.rdnsSemaphore = 1
             /\ os'.rdnsSemaphore = 0
             /\ os'.rdnsWaiting = os.rdnsWaiting - 1
       /\ os'.rdnsWaiting < os.rdnsWaiting /\ os'.rdnsSemaphore = os.rdnsSemaphore =>
             os'.rdnsRunning = os.rdnsRunning]_vars

\* One thread runs the commands while another waits for the semaphore.
C11_Witness == os.rdnsRunning = 1 /\ os.rdnsWaiting = 1 /\ os.rdnsSemaphore = 0

\* The list whose records Undo replays with ResetNameServers for the family.
UndoTypeOf(family) == IF family = "AF_INET" THEN "undo_dns4" ELSE "undo_dns6"

\* C12: after a del_dns_cfg for (interface, family) that is acknowledged with
\* error 0, the NameServer value of the pair is empty and the undo list of
\* the session for that family holds no record.
C12_DelDnsLeavesNoServerAndNoRecord ==
    [][\A s \in Sessions :
          /\ ServeStep(s)
          /\ req'[s].msg.type = "msg_del_dns_cfg"
          /\ req'[s].read = req'[s].msg.size
          /\ ack'[s].error_number = 0
          => /\ os'.nameServer[<<InterfaceIdString(req'[s].msg.iface.name, "none").iid,
                                 GetInterfacesKey(req'[s].msg.family)>>] = <<>>
             /\ lists'[s][UndoTypeOf(req'[s].msg.family)] = <<>>]_vars

\* A step of the serve loop in which s handled an add_dns_cfg that carries
\* search domains and acknowledged it with error 0.
DomainsAddStep(s) ==
    /\ ServeStep(s)
    /\ req'[s].msg.type = "msg_add_dns_cfg"
    /\ req'[s].read = req'[s].msg.size
    /\ req'[s].msg.domains # <<>>
    /\ ack'[s].error_number = 0

\* The SearchList the claim expects after D was added to the list P, and the
\* InitialSearchList next to it.
Appended(P, D) == IF P.set /\ P.val # <<>> THEN RegSz(P.val \o <<",">> \o D) ELSE RegSz(D)
Preserved(P) == IF P.set /\ P.val # <<>> THEN RegSz(P.val) ELSE NoValue

EndsInNul(blob) ==
    Len(blob) >= 2 /\ blob[Len(blob) - 1] = 0 /\ blob[Len(blob)] = 0

\* The NUL-terminated wide strings the blob holds.
NulStrings(blob) ==
    Cardinality({i \in 1..(Len(blob) \div 2) : WcharOf(blob, i) = 0})

\* C14: a worker whose startup blob does not end in a NUL wide character or
\* holds fewer than three NUL-terminated strings, and whose pipe operations
\* and allocation did not fail, has reported ERROR_STARTUP_DATA on the client
\* pipe and ended the session: no engine was created, no request served.
C14_MalformedBlobEndsSession ==
    \A s \in Sessions :
       /\ ~EndsInNul(run[s].blob) \/ NulStrings(run[s].blob) < 3
       /\ phase[s] \notin {"none", "startup"}
       /\ run[s].fault = "none"
       => /\ phase[s] = "done"
          /\ run[s].reported = <<ReturnError(ERROR_STARTUP_DATA)>>
          /\ run[s].engine = "none"
          /\ req[s] = NoRequest
          /\ ack[s] = NoAck

\* C15: the engine process is created only if ValidateOptions succeeded or
\* the client is an authorized user.  When the validation fails and the
\* client is not authorized, ERROR_STARTUP_DATA is reported, no engine is
\* created, and the session is over: the worker serves no request.
C15_EngineOnlyForValidOrAuthorized ==
    [][\A s \in Sessions :
          /\ phase[s] = "start" /\ phase'[s] # "start" =>
                /\ run'[s].engine # "none" =>
                      \/ ValidateOptions(run[s].argv, run'[s].fault)
                      \/ run[s].authorized
                /\ /\ ~ValidateOptions(run[s].argv, run'[s].fault)
                   /\ ~run[s].authorized
                   /\ run'[s].fault # "token"
                   => /\ run'[s].reported = <<ReturnError(ERROR_STARTUP_DATA)>>
                      /\ run'[s].engine = "none"
                      /\ phase'[s] = "done"
          /\ phase[s] \in {"startup", "start"} =>
                run[s].engine = "none" /\ req'[s] = NoRequest /\ ack'[s] = NoAck
          /\ phase[s] = "done" =>
                phase'[s] = "done" /\ req'[s] = req[s] /\ ack'[s] = ack[s]
                /\ run'[s] = run[s]]_vars

\* A client that is not authorized asked for an option CheckOption rejects
\* and was turned away.
C15_Witness ==
    \E s \in Sessions :
       /\ phase[s] = "done"
       /\ run[s].argv = <<"allowed", "denied">>
       /\ ~run[s].authorized
       /\ run[s].fault = "none"
       /\ run[s].reported = <<ReturnError(ERROR_STARTUP_DATA)>>
       /\ run[s].engine = "none"

\* The worker of s left its serve loop and handles no further request.
NoFurtherRequest(s) ==
    /\ phase'[s] \in {"teardown", "done"}
    /\ req'[s] = req[s]
    /\ ack'[s] = ack[s]
    /\ run'[s].handled = run[s].handled
    /\ run'[s].pipe = run[s].pipe
    /\ phase'[s] = phase[s] => lists'[s] = lists[s]

\* The step that completes the teardown of s.
TeardownCompletes(s) == phase[s] = "teardown" /\ phase'[s] = "done"

\* Undo processed exactly the records the ledger of s held.
AllUndone(s) == \A k \in UndoKindSet : Undone(undoLog'[s], k) = lists[s][k]

\* C16: after a peek that reported more bytes than the message buffer holds
\* the worker reads and handles no further request; when the teardown
\* completes the engine is not running any more (it has exited or was
\* terminated) and every record of the undo ledger has been undone.
C16_OversizedPeekEndsSession ==
    [][\A s \in Sessions :
          req[s].bytes > Sizeof("pipe_message_t") /\ phase[s] \in {"teardown", "done"} =>
             /\ NoFurtherRequest(s)
             /\ TeardownCompletes(s) =>
                   /\ run'[s].engine \in {"exited", "failed", "terminated"}
                   /\ AllUndone(s)
                   /\ lists'[s] = EmptyLists]_vars

\* The engine sent an oversized frame behind a request that left a record;
\* it was terminated and the record undone.
C16_Witness ==
    \E s \in Sessions :
       /\ phase[s] = "done"
       /\ req[s].bytes > Sizeof("pipe_message_t")
       /\ run[s].engine = "terminated"
       /\ Len(undoLog[s]) > 0

\* C18: after a peek that returned 0 bytes (the engine closed its end, the
\* I/O failed or exit_event was set) the worker handles no further request
\* and goes on to the teardown; when the teardown completes every list of
\* the undo ledger is empty.
C18_ZeroPeekEndsSession ==
    [][\A s \in Sessions :
          /\ phase[s] = "serve" /\ phase'[s] # "serve" /\ req'[s].bytes = 0 =>
                phase'[s] = "teardown"
          /\ req[s].bytes = 0 /\ phase[s] \in {"teardown", "done"} =>
                /\ NoFurtherRequest(s)
                /\ TeardownCompletes(s) => \A k \in UndoKindSet : lists'[s][k] = <<>>]_vars

\* exit_event ended the wait of the peek while the engine was running and
\* the ledger held a record; the teardown has emptied the ledger.
C18_Witness ==
    \E s \in Sessions :
       /\ phase[s] = "done"
       /\ req[s].bytes = 0
       /\ exit_event
       /\ run[s].engine = "terminated"
       /\ Len(undoLog[s]) > 0
       /\ lists[s] = EmptyLists

\* C17: once exit_event is set every worker eventually leaves its serve
\* loop and enters the teardown, whatever the engine does, also when the
\* engine keeps a request pending on the pipe at every peek.
C17_ExitEventEndsServing ==
    \A s \in Sessions :
       (exit_event /\ phase[s] \in {"serve", "read", "ack"})
          ~> (phase[s] \in {"teardown", "done"})

\* C19: the worker of a session has at most one pipe operation outstanding:
\* it peeks only when no ack is owed, and between the read of a request and
\* the next peek it writes exactly one ack.  Requests are read in the order
\* the engine wrote them.
C19_OneRequestOneAckInOrder ==
    [][\A s \in Sessions :
          /\ run'[s].owed \in {0, 1}
          /\ phase'[s] = "ack" <=> run'[s].owed = 1
          /\ phase[s] = "serve" /\ phase'[s] # "serve" => run[s].owed = 0 /\ ack'[s] = ack[s]
          /\ phase[s] = "read" /\ phase'[s] # "read" =>
                /\ phase'[s] = "ack" /\ run'[s].owed = run[s].owed + 1 /\ ack'[s] = ack[s]
                /\ req'[s].read # 0 =>
                      /\ req'[s].msg.message_id = NextId(run[s].handled)
                      /\ run'[s].handled = req'[s].msg.message_id
          /\ phase[s] = "ack" /\ phase'[s] # "ack" =>
                /\ phase'[s] = "serve" /\ run'[s].owed = run[s].owed - 1
                /\ ack'[s] = run[s].ackbuf
          /\ \A i \in 1..Len(run'[s].pipe) :
                run'[s].pipe[i] = IF i = 1 THEN NextId(run'[s].handled)
                                  ELSE NextId(run'[s].pipe[i - 1])]_vars

\* The worker has read the second request of the engine while the third is
\* pending, and owes its ack.
C19_Witness ==
    \E s \in Sessions :
       /\ phase[s] = "ack"
       /\ run[s].handled = 2
       /\ run[s].pipe = <<3>>
       /\ run[s].owed = 1
       /\ ack[s].message_id = 1

\* C20: every ack carries the message_id of the request it answers, whether
\* the request is well-formed, size-inconsistent or of an unknown type, and
\* carries error 0 exactly when the handler of the request ran and succeeded.
C20_AckMirrorsRequest ==
    [][\A s \in Sessions :
          ServeStep(s) /\ req'[s].read = req'[s].bytes =>
             /\ ack'[s].message_id = req'[s].msg.message_id
             /\ ack'[s].error_number = 0 <=>
                   /\ req'[s].read >= Sizeof("header")
                   /\ req'[s].read = req'[s].msg.size
                   /\ Dispatch(req'[s].msg, lists[s], os, req'[s].fault).err = 0]_vars

(***************************************************************************)
(* The WFP block: ledger records, filters and interface metrics.           *)
(***************************************************************************)
\* The step of session s handled a well-formed request of the given type.
Handled(s, type) ==
    /\ ServeStep(s)
    /\ req'[s].msg.type = type
    /\ req'[s].read = req'[s].bytes
    /\ req'[s].read = req'[s].msg.size
    /\ req'[s].msg.size = Sizeof(VariantOf(type))

\* The metric of `family` recorded in block_data is the one the interface of
\* the record has in o; a metric that could not be read (-1) is as in `before`.
MetricRestored(block_data, family, recorded, before, o) ==
    IF recorded >= 0
    THEN get_interface_metric(block_data.index, family, o) = recorded
    ELSE get_interface_metric(block_data.index, family, o)
            = get_interface_metric(block_data.index, family, before)

\* The block of the record is gone from o: its filters are removed and both
\* metrics of its interface are restored.
BlockRemoved(block_data, before, o) ==
    /\ block_data.engine \notin o.filters
    /\ MetricRestored(block_data, "AF_INET", block_data.metric_v4, before, o)
    /\ MetricRestored(block_data, "AF_INET6", block_data.metric_v6, before, o)

\* C27: in every reachable state the undo ledger of a session holds at most
\* one WFP block record.
C27_AtMostOneWfpBlockRecord ==
    \A s \in Sessions : Len(lists[s].wfp_block) <= 1

\* C28: when a WFP block is removed, by del_wfp_block with any interface
\* index in the request or by the teardown of a session that holds one block,
\* its filters are removed and the metrics of the interface it was installed
\* on are restored to the recorded values; a metric that could not be read
\* when the block was added is left as it is.
C28_BlockRemovalRestoresMetrics ==
    [][\A s \in Sessions :
          /\ Handled(s, "msg_del_wfp_block") /\ lists[s].wfp_block # <<>>
                => BlockRemoved(lists[s].wfp_block[1], os, os')
          /\ TeardownCompletes(s) /\ Len(lists[s].wfp_block) = 1
                => BlockRemoved(lists[s].wfp_block[1], os, os')]_vars

\* The request of the step is an add_wfp_block whose filters were installed
\* and whose IPv4 metric was set, while setting the IPv6 metric failed.
Ipv6MetricFailed(s) ==
    /\ IndexInterface(req'[s].msg.iface.index) # {}
    /\ \/ req'[s].fault = "metric_v6"
       \/ /\ req'[s].fault = "none"
          /\ <<req'[s].msg.iface.index, "AF_INET6">> \notin DOMAIN os.metric

\* C29: add_wfp_block is acknowledged with 0 and its record kept when only
\* setting the IPv6 metric fails; when setting the IPv4 metric or appending
\* to the ledger fails, the ack carries an error, the filters just installed
\* are removed and the ledger is as it was before the request.
C29_Ipv6MetricFailureIsNotFatal ==
    [][\A s \in Sessions :
          Handled(s, "msg_add_wfp_block") =>
             /\ Ipv6MetricFailed(s) =>
                   /\ ack'[s].error_number = 0
                   /\ Len(lists'[s].wfp_block) = Len(lists[s].wfp_block) + 1
                   /\ lists'[s].wfp_block[1].index = req'[s].msg.iface.index
                   /\ lists'[s].wfp_block[1].engine \in os'.filters \ os.filters
                   /\ get_interface_metric(req'[s].msg.iface.index, "AF_INET", os')
                         = WFP_BLOCK_IFACE_METRIC
             /\ req'[s].fault \in {"metric_v4", "item", "block_data"} =>
                   /\ ack'[s].error_number # 0
                   /\ os'.filters = os.filters
                   /\ lists'[s] = lists[s]]_vars

\* A block was added on an interface whose IPv6 metric could not be set: the
\* ack carries 0 and the ledger holds the record of the block.
C29_Witness ==
    \E s \in Sessions :
       /\ req[s].msg.type = "msg_add_wfp_block"
       /\ req[s].fault = "metric_v6"
       /\ ack[s].error_number = 0
       /\ Len(lists[s].wfp_block) = 1
       /\ lists[s].wfp_block[1].engine \in os.filters

(***************************************************************************)
(* The engine process and the loop after an error ack.                     *)
(***************************************************************************)
\* C21: the engine of a session is created once, by the step that follows
\* an accepted startup blob and that found the options valid or the user
\* authorized; an engine that was created never goes back to running or to
\* not created; and when the teardown of a session that created an engine
\* completes, the engine has exited by itself or was terminated.
C21_OneEngineStoppedAtTeardown ==
    [][\A s \in Sessions :
          /\ run[s].engine = "none" /\ run'[s].engine # "none" =>
                /\ phase[s] = "start"
                /\ GetStartupData(run[s].blob, run[s].fault).ok
                /\ ~Rejected(ValidateOptions(run[s].argv, run'[s].fault), run[s].authorized)
          /\ run[s].engine # "none" =>
                /\ run'[s].engine # "none"
                /\ run'[s].engine = "running" => run[s].engine = "running"
          /\ TeardownCompletes(s) /\ run[s].engine # "none" =>
                run'[s].engine \in {"exited", "failed", "terminated"}]_vars

\* A session served a request, left the loop while its engine was still
\* running, and completed its teardown with the engine terminated.
C21_Witness ==
    \E s \in Sessions :
       /\ phase[s] = "done"
       /\ run[s].engine = "terminated"
       /\ run[s].handled >= 1
       /\ run[s].reported = <<ReturnProcessId>>

\* C22: the ack of a request answered with ERROR_MESSAGE_DATA or
\* ERROR_MESSAGE_TYPE is written and the worker is back at the peek, the
\* engine and the ledger as they were; and a well-formed request read after
\* such an ack is handled by its handler and acknowledged with its own
\* message_id and the handler's result.
C22_ErrorAckKeepsSessionServing ==
    [][\A s \in Sessions :
          /\ /\ phase[s] = "ack" /\ phase'[s] # "ack"
             /\ run[s].ackbuf.error_number \in {ERROR_MESSAGE_DATA, ERROR_MESSAGE_TYPE}
             => /\ phase'[s] = "serve"
                /\ ack'[s] = run[s].ackbuf
                /\ run'[s].engine = run[s].engine
                /\ lists'[s] = lists[s]
          /\ /\ phase[s] = "read" /\ phase'[s] = "ack"
             /\ ack[s].error_number \in {ERROR_MESSAGE_DATA, ERROR_MESSAGE_TYPE}
             /\ req'[s].read = req[s].bytes
             /\ req[s].msg.type \in KnownTypes
             /\ req[s].msg.size = req[s].bytes
             /\ req[s].bytes = Sizeof(VariantOf(req[s].msg.type))
             => \E r \in {Dispatch(req[s].msg, lists[s], os, req'[s].fault)} :
                   /\ run'[s].ackbuf = [message_id |-> req[s].msg.message_id,
                                        error_number |-> r.err]
                   /\ lists'[s] = r.lists
                   /\ os' = r.os]_vars

\* The ack before was ERROR_MESSAGE_TYPE; the add_address that followed was
\* handled and its ack, with error 0, is about to be written.
C22_Witness ==
    \E s \in Sessions :
       /\ phase[s] = "ack"
       /\ ack[s].error_number = ERROR_MESSAGE_TYPE
       /\ req[s].msg.type = "msg_add_address"
       /\ run[s].ackbuf = [message_id |-> NextId(ack[s].message_id), error_number |-> 0]
       /\ lists[s].address # <<>>

(***************************************************************************)
(* Service start: CleanupRegistry, and the choice of the search list key.  *)
(***************************************************************************)
\* CleanupRegistry after ResetDnsSearchDomains returned r.
RegistryCleaned(k, r) == IF r.ret THEN ApplyDnsSettings(k.gpol, r.os) ELSE r.os

\* CleanupRegistry after GetDnsSearchListKey returned k.
RegistryKeyCleaned(k, o) ==
    IF k.key # INVALID_HANDLE_VALUE
    THEN RegistryCleaned(k, ResetDnsSearchDomains(k.key, o))
    ELSE o

CleanupRegistry(o) == RegistryKeyCleaned(GetDnsSearchListKey(<<NUL>>, o), o)

\* A list of SearchDataLen characters: `last` at the end, `c` before it.
\* With its terminator it does not fit the buffer of HasValidSearchList.
LongList(c, last) == RegSz([i \in 1..SearchDataLen |-> IF i = SearchDataLen THEN last ELSE c])

\* The SearchList values the registry may hold when the service starts.
StartupSearchLists ==
    {NoValue, RegSz(<<>>), RegSz(<<",">>), RegSz(<<"a">>), RegSz(<<",", "b">>),
     LongList("a", "a"), LongList(",", "a"), LongList(",", ",")}

\* What the buffer of HasValidSearchList may hold when it was not filled.
BufferData == {<<>>, <<",">>, <<"a">>, <<",", "b">>}

\* The service starts: nobody is connected, the registry is as the last run
\* of the service and the administrator left it.
StartupInit ==
    /\ phase = [s \in Sessions |-> "none"]
    /\ lists = [s \in Sessions |-> EmptyLists]
    /\ req = [s \in Sessions |-> NoRequest]
    /\ ack = [s \in Sessions |-> NoAck]
    /\ undoLog = [s \in Sessions |-> <<>>]
    /\ workload = [s \in Sessions |-> "none"]
    /\ run = [s \in Sessions |-> NoRun]
    /\ exit_event = FALSE
    /\ svc = NoService
    /\ \E gp \in StartupSearchLists, sys \in StartupSearchLists,
          ig \in {NoValue, RegSz(<<"a">>)}, is \in {NoValue, RegSz(<<"b">>)},
          d \in BufferData :
          os = [InitialOs(gp, sys) EXCEPT !.initialList["gpol"] = ig,
                                          !.initialList["system"] = is,
                                          !.data = d]

\* ServiceStartInteractive calls CleanupRegistry before it serves the pipe.
CleanUp ==
    /\ os.reload = "none"
    /\ os' = CleanupRegistry(os)
    /\ UNCHANGED <<phase, lists, req, ack, undoLog, workload, run, exit_event, svc>>

Startup == StartupInit /\ [][CleanUp]_vars

\* The SearchList value holds a domain name character.
ValidList(value) == value.set /\ \E i \in 1..Len(value.val) : ValidDomainChar(value.val[i])

\* The key the order group policy, system-wide, interface selects for
\* itf_name (<<NUL>> when no interface is given).
SelectedKey(itf_name, o) ==
    IF ValidList(o.searchList["gpol"]) THEN "gpol"
    ELSE IF ValidList(o.searchList["system"]) THEN "system"
    ELSE IF itf_name # <<NUL>> /\ \E i \in OsInterfaces : i.alias = itf_name
    THEN (CHOOSE i \in OsInterfaces : i.alias = itf_name).iid
    ELSE INVALID_HANDLE_VALUE

\* C24: GetDnsSearchListKey selects the group-policy key when it holds a
\* valid SearchList, otherwise the system-wide key when that holds one,
\* otherwise the key of the given interface, otherwise none; it reports an
\* existing list exactly for the first two and sets the group-policy flag
\* exactly when the group-policy key was selected.
C24_SearchListKeyByPrecedence ==
    \A itf_name \in {ByName.name, BadName.name, <<NUL>>} :
       \A k \in {GetDnsSearchListKey(itf_name, os)} :
          /\ k.key = SelectedKey(itf_name, os)
          /\ k.have_list <=> k.key \in {"gpol", "system"}
          /\ k.gpol <=> k.key = "gpol"

(***************************************************************************)
(* The search list: the size limit, the scope and the reload.              *)
(***************************************************************************)
\* The add_dns_cfg the step of s handled names an interface and has domains,
\* the session holds no record of domains, and the list at the chosen scope
\* k, a comma, the domains and the terminator do not fit SearchListCap
\* characters.
SizeRejected(s, k) ==
    /\ req'[s].fault = "none"
    /\ req'[s].msg.iface.name # <<>>
    /\ InterfaceIdString(req'[s].msg.iface.name, "none").err = 0
    /\ req'[s].msg.domains # <<>>
    /\ lists[s].undo_domains = <<>>
    /\ k.have_list
    /\ Len(os.searchList[k.key].val) + 1 <= SearchListCap
    /\ Len(os.searchList[k.key].val) + Len(req'[s].msg.domains) + 2 > SearchListCap

\* C26: when appending the domains is rejected because list, comma, domains
\* and terminator exceed the buffer, the request fails, SearchList and
\* InitialSearchList at the chosen scope are as they were before the request
\* and no record of domains is added.
C26_OversizedAppendChangesNothing ==
    [][\A s \in Sessions :
          Handled(s, "msg_add_dns_cfg") =>
          \A k \in {GetDnsSearchListKey(req'[s].msg.iface.name, os)} :
             SizeRejected(s, k) =>
                /\ ack'[s].error_number # 0
                /\ os'.searchList[k.key] = os.searchList[k.key]
                /\ os'.initialList[k.key] = os.initialList[k.key]
                /\ lists'[s].undo_domains = <<>>]_vars

\* What the handler of the dns request of the step did, had no reload been
\* notified before the request.
DnsHandled(s) ==
    Dispatch(req'[s].msg, lists[s], [os EXCEPT !.reload = "none"], req'[s].fault)

\* C30: a handled add_dns_cfg or del_dns_cfg that changed a NameServer or a
\* SearchList value has notified the resolver (SERVICE_CONTROL_PARAMCHANGE)
\* by the time its ack is written, whether it ends with an error or not; the
\* group-policy notification is sent only when the request has domains and
\* the scope of the search list is group policy.
C30_DnsChangeNotifiesResolver ==
    [][\A s \in Sessions :
          Handled(s, "msg_add_dns_cfg") \/ Handled(s, "msg_del_dns_cfg") =>
             \A r \in {DnsHandled(s)} :
                /\ os'.nameServer = r.os.nameServer
                /\ os'.searchList = r.os.searchList
                /\ os'.nameServer # os.nameServer \/ os'.searchList # os.searchList
                      => r.os.reload \in {"paramchange", "gpol+paramchange"}
                /\ r.os.reload = "gpol+paramchange" =>
                      /\ req'[s].msg.domains # <<>>
                      /\ GetDnsSearchListKey(req'[s].msg.iface.name, os).gpol]_vars

(***************************************************************************)
(* Two sessions and one search list.                                       *)
(***************************************************************************)
\* Both sessions are in their serve loop; the engine of the first adds and
\* removes the domains "b", the engine of the second the domains "c".  The
\* registry holds the list "a" at the group-policy or the system-wide key.
SharedInit ==
    /\ phase = [s \in Sessions |-> "serve"]
    /\ lists = [s \in Sessions |-> EmptyLists]
    /\ req = [s \in Sessions |-> NoRequest]
    /\ ack = [s \in Sessions |-> NoAck]
    /\ undoLog = [s \in Sessions |-> <<>>]
    /\ workload = [s \in Sessions |-> IF s = 1 THEN "domains_b" ELSE "domains_c"]
    /\ \E sl \in {<<RegSz(<<"a">>), NoValue>>, <<NoValue, RegSz(<<"a">>)>>} :
          os = InitialOs(sl[1], sl[2])
    /\ run = [s \in Sessions |-> Launched]
    /\ exit_event = FALSE
    /\ svc = ServiceRunning(Sessions)

SharedNext ==
    \/ \E s \in Sessions : Serve(s)
    \/ \E s \in Sessions : PeekZero(s)
    \/ \E s \in Sessions : PeekOversized(s)
    \/ \E s \in Sessions : Teardown(s)

Shared == SharedInit /\ [][SharedNext]_vars

\* The sessions that hold a record of search domains.
Holders == {s \in Sessions : lists[s].undo_domains # <<>>}

\* The domains session s holds a record of.
DomainsOf(s) == lists[s].undo_domains[1].domains

\* The list `prior` followed by the domains of the sessions of `order`.
RECURSIVE AppendedList(_, _)
AppendedList(prior, order) ==
    IF order = <<>>
    THEN prior
    ELSE AppendedList(prior \o <<",">> \o DomainsOf(Head(order)), Tail(order))

\* The orders in which the holders may have appended.
HolderOrders == {o \in UNION {[1..n -> Holders] : n \in 0..Cardinality(Sessions)} :
                    /\ Len(o) = Cardinality(Holders)
                    /\ \A i, j \in 1..Len(o) : i # j => o[i] # o[j]}

\* Session s removes the domains it holds a record of, by del_dns_cfg or by
\* its teardown.
RemovesDomains(s) ==
    /\ s \in Holders
    /\ lists'[s].undo_domains = <<>>
    /\ \/ Handled(s, "msg_del_dns_cfg")
       \/ TeardownCompletes(s)

\* C23: the sessions that hold domains appended them to the same list, which
\* was `prior` before (the InitialSearchList).  When one of them removes its
\* domains, exactly these and their comma leave the list, wherever they
\* stand in it; when the last of them has removed its domains the
\* SearchList is the prior list again and InitialSearchList is gone.
C23_SharedListRestoredInAnyOrder ==
    [][\A s \in Sessions, key \in {"gpol", "system"} :
          /\ RemovesDomains(s)
          /\ os.initialList[key].set
          /\ GetDnsSearchListKey(ByName.name, os).key = key
          => \A order \in HolderOrders :
                os.searchList[key] = RegSz(AppendedList(os.initialList[key].val, order))
                => IF Holders = {s}
                   THEN /\ os'.searchList[key] = os.initialList[key]
                        /\ ~os'.initialList[key].set
                   ELSE /\ os'.searchList[key] =
                              RegSz(AppendedList(os.initialList[key].val,
                                                 SelectSeq(order, LAMBDA t : t # s)))
                        /\ os'.initialList[key] = os.initialList[key]]_vars

(***************************************************************************)
(* One session and a group policy that changes while it runs.              *)
(***************************************************************************)
\* The session is in its serve loop, its engine adds and removes the
\* domains "b"; the registry holds no search list.
PolicyInit ==
    /\ phase = [s \in Sessions |-> IF s = 1 THEN "serve" ELSE "none"]
    /\ lists = [s \in Sessions |-> EmptyLists]
    /\ req = [s \in Sessions |-> NoRequest]
    /\ ack = [s \in Sessions |-> NoAck]
    /\ undoLog = [s \in Sessions |-> <<>>]
    /\ workload = [s \in Sessions |-> IF s = 1 THEN "domains_b" ELSE "none"]
    /\ os = InitialOs(NoValue, NoValue)
    /\ run = [s \in Sessions |-> IF s = 1 THEN Launched ELSE NoRun]
    /\ exit_event = FALSE
    /\ svc = ServiceRunning({1})

\* Another party, a group policy refresh, writes the SearchList "a" to the
\* group-policy key, which had none.
PolicyWrites ==
    /\ ~os.searchList["gpol"].set
    /\ os' = [os EXCEPT !.searchList["gpol"] = RegSz(<<"a">>)]
    /\ UNCHANGED <<phase, lists, req, ack, undoLog, workload, run, exit_event, svc>>

PolicyNext ==
    \/ \E s \in Sessions : Serve(s)
    \/ \E s \in Sessions : PeekZero(s)
    \/ \E s \in Sessions : PeekOversized(s)
    \/ \E s \in Sessions : Teardown(s)
    \/ PolicyWrites

Policy == PolicyInit /\ [][PolicyNext]_vars

ScopeKeys == {"gpol", "system", "{1}"}

\* The list holds the domains.
HoldsDomains(value, domains) ==
    /\ value.set
    /\ \E i \in 1..Len(value.val) :
          /\ i + Len(domains) - 1 <= Len(value.val)
          /\ SubSeq(value.val, i, i + Len(domains) - 1) = domains

\* The scopes whose SearchList holds the domains of the record of s.  The
\* other party never writes these domains, so they are where s added them.
ScopesOfDomains(s) == {k \in ScopeKeys : HoldsDomains(os.searchList[k], DomainsOf(s))}

\* Session s replaces the domains it holds a record of.
ReplacesDomains(s) ==
    /\ s \in Holders
    /\ Handled(s, "msg_add_dns_cfg")
    /\ req'[s].msg.domains # <<>>

\* C25: the domains of the record of a session are in the list of exactly
\* one scope, the one chosen when they were added.  Their replacement, their
\* removal by del_dns_cfg and their undo at teardown write to that scope
\* only, and a removal takes them out of the list of that scope, whatever
\* another party wrote to the registry in between.
C25_DomainsKeepTheirScope ==
    [][\A s \in Sessions, key \in ScopeKeys :
          /\ RemovesDomains(s) \/ ReplacesDomains(s)
          /\ ScopesOfDomains(s) = {key}
          => /\ \A k \in ScopeKeys \ {key} :
                   /\ os'.searchList[k] = os.searchList[k]
                   /\ os'.initialList[k] = os.initialList[k]
             /\ RemovesDomains(s) => ~HoldsDomains(os'.searchList[key], DomainsOf(s))]_vars

(***************************************************************************)
(* The dispatcher: service start, the accept loop, the workers it spawns.  *)
(***************************************************************************)
\* The label `out` of ServiceStartInteractive: the wait handles are freed,
\* io_event, exit_event and rdns_semaphore are closed.
ServiceOut(v) ==
    [v EXCEPT !.pc = "stopped", !.handles = <<>>,
              !.events = IF v.events = "open" THEN "closed" ELSE v.events]

\* ServiceStartInteractive after rdns_semaphore was created: the first wait
\* handles and the first pipe instance.
ServiceListens(v, w, p) ==
    IF w.err # 0
    THEN ServiceOut([v EXCEPT !.events = "open"])
    ELSE IF p.pipe = 0
    THEN ServiceOut([v EXCEPT !.events = "open", !.handles = w.handles, !.size = w.size])
    ELSE [v EXCEPT !.pc = "connect", !.events = "open", !.handles = w.handles,
                   !.size = w.size, !.pipe = p.pipe, !.pipes = p.pipes]

\* ServiceStartInteractive after CleanupRegistry, up to the accept loop.
\* A fault is the call that fails.
ServiceInitialized(v, fault) ==
    IF fault \in {"settings", "event"}
    THEN ServiceOut(v)
    ELSE IF fault = "semaphore"
    THEN ServiceOut([v EXCEPT !.events = "open"])
    ELSE ServiceListens(v, UpdateWaitHandles(v.handles, v.size, v.threads, fault = "handles"),
                        CreateClientPipeInstance(v.pipes, fault = "pipe"))

\* ServiceStartInteractive up to the accept loop: without a control handler
\* it returns at once, otherwise CleanupRegistry comes first.
ServiceStarted(v, o, fault) ==
    IF fault = "register"
    THEN [svc |-> [v EXCEPT !.pc = "returned"], os |-> o]
    ELSE [svc |-> ServiceInitialized(v, fault), os |-> CleanupRegistry(o)]

StartFaults == {"none", "register", "settings", "event", "semaphore", "handles", "pipe"}

ServiceStartInteractive ==
    /\ svc.pc = "start"
    /\ \E fault \in StartFaults :
          \E r \in {ServiceStarted(svc, os, fault)} :
             /\ svc' = r.svc
             /\ os' = r.os
    /\ UNCHANGED <<phase, lists, req, ack, undoLog, workload, run, exit_event>>

\* ConnectNamedPipe on the current pipe instance: the connect is pending
\* and the dispatcher waits, or the call failed and the loop is left.
ConnectNamedPipe ==
    /\ svc.pc = "connect"
    /\ \E failed \in BOOLEAN :
          /\ svc.pipe = 0 => failed
          /\ svc' = IF failed THEN ServiceOut(svc) ELSE [svc EXCEPT !.pc = "wait"]
    /\ UNCHANGED <<phase, lists, req, ack, undoLog, workload, os, run, exit_event>>

\* The handle CreateThread returns: one no thread was created for.
FreeThreads(v) == {i \in 1..Len(ThreadHandles) : v.thread[ThreadHandles[i]].state = "none"}

\* A client opens the pipe instance that listens: io_event is signalled.
ClientConnects ==
    /\ svc.pc = "wait"
    /\ ~svc.io_event
    /\ svc.pipes[svc.pipe].state = "listening"
    /\ Len(svc.pipes) <= MaxClients
    /\ FreeThreads(svc) # {}
    /\ svc' = [svc EXCEPT !.io_event = TRUE, !.pipes[svc.pipe].state = "connected"]
    /\ UNCHANGED <<phase, lists, req, ack, undoLog, workload, os, run, exit_event>>

\* The worker could not be registered: the error goes to the client, the
\* thread is taken from the list, the wait handles are set again, the
\* thread is terminated and its handle and the pipe are closed.
WorkerRejected(v, thread, error, w) ==
    [v EXCEPT !.pipes[v.pipe].reported = Append(@, ReturnError(error)),
              !.pipes[v.pipe].state = "closed",
              !.threads = RemoveListItem(v.threads, "CmpHandle", thread).list,
              !.handles = w.handles, !.size = w.size,
              !.thread[thread].state = "terminated",
              !.thread[thread].closed = @ + 1]

\* A faulty variant of WorkerRegistered: the thread is resumed whether or
\* not it was registered.
WorkerRegisteredAlwaysResumed(v, thread, w) ==
    [v EXCEPT !.handles = w.handles, !.size = w.size,
              !.thread[thread].state = "running"]

\* After AddListItem succeeded and UpdateWaitHandles returned w.
WorkerRegistered(v, thread, w) ==
    IF w.err # 0
    THEN WorkerRejected([v EXCEPT !.handles = w.handles, !.size = w.size], thread, w.err,
                        UpdateWaitHandles(w.handles, w.size,
                                          RemoveListItem(v.threads, "CmpHandle", thread).list,
                                          TRUE))
    ELSE [v EXCEPT !.handles = w.handles, !.size = w.size,
                   !.thread[thread].state = "running"]

\* A faulty variant of WorkerCreated: the thread is resumed before it is
\* in the list.
WorkerCreatedResumedFirst(v, thread, fault) ==
    IF fault = "item"
    THEN [v EXCEPT !.thread[thread].state = "running"]
    ELSE WorkerRegistered([v EXCEPT !.threads = AddListItem(v.threads, thread)], thread,
                          UpdateWaitHandles(v.handles, v.size,
                                            AddListItem(v.threads, thread), fault = "handles"))

\* CreateThread returned `thread`, suspended: AddListItem, UpdateWaitHandles
\* and ResumeThread, or the error path.
WorkerCreated(v, thread, fault) ==
    IF fault = "item"
    THEN WorkerRejected(v, thread, ERROR_OUTOFMEMORY,
                        UpdateWaitHandles(v.handles, v.size, v.threads, FALSE))
    ELSE WorkerRegistered([v EXCEPT !.threads = AddListItem(v.threads, thread)], thread,
                          UpdateWaitHandles(v.handles, v.size,
                                            AddListItem(v.threads, thread), fault = "handles"))

\* The branch WAIT_OBJECT_0 of the accept loop: the next pipe instance, a
\* suspended worker for the connected one, then the next pipe is current.
ClientAccepted(v, next, thread, fault) ==
    [(IF fault = "thread"
      THEN [v EXCEPT !.pipes[v.pipe].state = "closed"]
      ELSE WorkerCreated([v EXCEPT !.thread[thread] =
                                     [state |-> "suspended", pipe |-> v.pipe, closed |-> 0]],
                         thread, fault))
     EXCEPT !.pipes = @ \o SubSeq(next.pipes, Len(v.pipes) + 1, Len(next.pipes)),
            !.pipe = next.pipe, !.io_event = FALSE, !.pc = "connect"]

AcceptFaults == {"none", "thread", "item", "handles"}

\* The handle is signalled.
Signalled(handle, v, ev) ==
    CASE handle = "io_event" -> v.io_event
      [] handle = "exit_event" -> ev
      [] OTHER -> v.thread[handle].state \in {"ended", "terminated"}

\* What WaitForMultipleObjects returns without bWaitAll: the lowest index
\* of a signalled handle (0 when none is).
WaitForMultipleObjects(v, ev) ==
    IF \E i \in 1..Len(v.handles) : Signalled(v.handles[i], v, ev)
    THEN CHOOSE i \in 1..Len(v.handles) :
            /\ Signalled(v.handles[i], v, ev)
            /\ \A j \in 1..(i - 1) : ~Signalled(v.handles[j], v, ev)
    ELSE 0

\* The wait returned WAIT_OBJECT_0: a client connected.
Accept ==
    /\ svc.pc = "wait"
    /\ WaitForMultipleObjects(svc, exit_event) = 1
    /\ \E fault \in AcceptFaults, pipeFailed \in BOOLEAN :
          svc' = ClientAccepted(svc, CreateClientPipeInstance(svc.pipes, pipeFailed),
                                ThreadHandles[CHOOSE h \in FreeThreads(svc) :
                                                 \A g \in FreeThreads(svc) : h <= g],
                                fault)
    /\ UNCHANGED <<phase, lists, req, ack, undoLog, workload, os, run, exit_event>>

\* A faulty variant of WorkerReaped: the handle is closed, the thread stays
\* in the list.
WorkerReapedKeepsItem(v, thread, w) ==
    [v EXCEPT !.thread[thread].closed = @ + 1, !.pc = "connect"]

\* The wait returned the index of a thread handle: the thread is taken
\* from the list, the wait handles are set again, the handle is closed.
WorkerReaped(v, thread, w) ==
    [v EXCEPT !.threads = RemoveListItem(v.threads, "CmpHandle", thread).list,
              !.handles = w.handles, !.size = w.size,
              !.thread[thread].closed = @ + 1, !.pc = "connect"]

\* A faulty variant of Woken: the loop is left on exit_event whether or not
\* threads are left.
WokenLeaves(v, i) ==
    ServiceOut([v EXCEPT !.pipes[v.pipe].state = "closed"])

\* The wait returned index i - 1, not WAIT_OBJECT_0 and not WAIT_FAILED:
\* without threads exit_event was signalled and the loop is left, otherwise
\* a worker ended.
Woken(v, i) ==
    IF v.threads = <<>>
    THEN ServiceOut([v EXCEPT !.pipes[v.pipe].state = "closed", !.pipe = 0])
    ELSE WorkerReaped(v, v.handles[i],
                      UpdateWaitHandles(v.handles, v.size,
                                        RemoveListItem(v.threads, "CmpHandle", v.handles[i]).list,
                                        TRUE))

\* The wait returned for exit_event or for a thread that ended.  On the
\* way out ResetEvent(exit_event).
Wake ==
    /\ svc.pc = "wait"
    /\ WaitForMultipleObjects(svc, exit_event) > 1
    /\ svc' = Woken(svc, WaitForMultipleObjects(svc, exit_event))
    /\ exit_event' = IF svc.threads = <<>> THEN FALSE ELSE exit_event
    /\ UNCHANGED <<phase, lists, req, ack, undoLog, workload, os, run>>

\* The wait returned WAIT_FAILED: SetEvent(exit_event), a sleep of one
\* second, and the loop is left.
WaitFailed ==
    /\ svc.pc = "wait"
    /\ svc' = ServiceOut(svc)
    /\ exit_event' = TRUE
    /\ UNCHANGED <<phase, lists, req, ack, undoLog, workload, os, run>>

\* RunOpenvpn of the worker returns: it closed its pipe, the thread ends.
WorkerEnds(h) ==
    /\ svc.thread[h].state = "running"
    /\ svc' = [svc EXCEPT !.thread[h].state = "ended",
                          !.pipes[svc.thread[h].pipe].state = "closed"]
    /\ UNCHANGED <<phase, lists, req, ack, undoLog, workload, os, run, exit_event>>

ServiceNext ==
    \/ ServiceStartInteractive
    \/ ConnectNamedPipe
    \/ ClientConnects
    \/ Accept
    \/ Wake
    \/ WaitFailed
    \/ \E h \in {"t1", "t2"} : WorkerEnds(h)
    \/ ServiceCtrlInteractive

Service == StartupInit /\ [][ServiceNext]_vars

(***************************************************************************)
(* Service start: the cleanup of the registry.                             *)
(***************************************************************************)
\* The step is the start of the service and CleanupRegistry ran in it.
CleanedUp == svc.pc = "start" /\ svc'.pc \notin {"start", "returned"}

\* C31: CleanupRegistry runs at service start before a pipe instance exists
\* and a worker is spawned; after it the scope that holds a search list
\* (group policy before system-wide) has no InitialSearchList; when it had
\* one, SearchList of the scope is that value, and when it had none no
\* SearchList changed and the resolver was not notified.
C31_StartupCleanupDrainsInitialList ==
    [][CleanedUp =>
         /\ svc.pipes = <<>>
         /\ \A h \in {"t1", "t2"} : svc.thread[h].state = "none"
         /\ \A k \in {SelectedKey(<<NUL>>, os)} :
               k # INVALID_HANDLE_VALUE =>
                  /\ ~os'.initialList[k].set
                  /\ os.initialList[k].set => os'.searchList[k] = os.initialList[k]
                  /\ ~os.initialList[k].set =>
                        /\ os'.searchList = os.searchList
                        /\ os'.reload = "none"]_vars

(***************************************************************************)
(* The accept loop: how it is left, what it waits for, the workers.        *)
(***************************************************************************)
\* The step leaves the accept loop for the label `out`.
LeavesLoop == svc.pc \in {"connect", "wait"} /\ svc'.pc = "stopped"

\* The step is the branch WAIT_FAILED, which sets exit_event on its way out.
WaitFails == svc.pc = "wait" /\ svc'.pc = "stopped" /\ exit_event'

\* C32: unless the wait failed, the dispatcher leaves the accept loop and
\* closes exit_event and rdns_semaphore only with an empty thread list and
\* with no worker it spawned still suspended or running.
C32_LoopLeftWithoutWorkers ==
    [][LeavesLoop /\ ~WaitFails =>
         /\ svc.threads = <<>>
         /\ \A h \in {"t1", "t2"} : svc.thread[h].state \notin {"suspended", "running"}
         /\ svc.events = "open" /\ svc'.events = "closed"]_vars

\* The workers that were spawned and whose handle the dispatcher has not
\* closed yet.
Unreaped(v) ==
    {h \in {"t1", "t2"} : v.thread[h].state \in {"suspended", "running", "ended"}
                           /\ v.thread[h].closed = 0}

\* The handles of the wait-set.
WaitSet(v) == {v.handles[i] : i \in 1..Len(v.handles)}

\* C33 as stated: at every wait of the accept loop the wait-set holds the
\* accept event, the exit event and the handle of every worker that was
\* spawned and not reaped.
C33_WaitSetHoldsExitEventAndWorkers ==
    svc.pc = "wait" =>
       /\ "io_event" \in WaitSet(svc)
       /\ "exit_event" \in WaitSet(svc)
       /\ Unreaped(svc) \subseteq WaitSet(svc)

\* C33 amended: at every wait of the accept loop the wait-set is the accept
\* event first, then the handle of every worker that was spawned and not
\* reaped, each once and nothing else; the exit event is in the wait-set
\* exactly when there is no such worker.
C33_WaitSetHoldsExitEventWithoutWorkers ==
    svc.pc = "wait" =>
       /\ svc.handles[1] = "io_event"
       /\ WaitSet(svc) = {"io_event"} \cup (IF Unreaped(svc) = {} THEN {"exit_event"}
                                           ELSE Unreaped(svc))
       /\ Len(svc.handles) = Cardinality(WaitSet(svc))
       /\ Len(svc.handles) <= svc.size
       /\ "exit_event" \in WaitSet(svc) <=> svc.threads = <<>>

\* The dispatcher waits while two workers run.
C33_Witness ==
    /\ svc.pc = "wait"
    /\ Unreaped(svc) = {"t1", "t2"}
    /\ svc.handles = <<"io_event", "t2", "t1">>
    /\ exit_event

\* The step is the branch WAIT_OBJECT_0 of the accept loop.
AcceptStep == svc.pc = "wait" /\ svc.io_event /\ svc'.pc = "connect"

\* The step is the branch of the accept loop for a worker that ended.
ReapStep == svc.pc = "wait" /\ ~svc.io_event /\ svc'.pc = "connect"

\* The step spawned the worker h for the connected pipe, registered and
\* resumed it.
WorkerResumed(h) ==
    /\ svc'.thread[h] = [state |-> "running", pipe |-> svc.pipe, closed |-> 0]
    /\ svc'.threads = <<h>> \o svc.threads
    /\ h \in WaitSet(svc')
    /\ svc'.pipes[svc.pipe] = svc.pipes[svc.pipe]

\* The step created the worker h for the connected pipe and could not
\* register it.
WorkerTurnedAway(h) ==
    /\ svc'.thread[h] = [state |-> "terminated", pipe |-> svc.pipe, closed |-> 1]
    /\ svc'.threads = svc.threads
    /\ svc'.handles = svc.handles
    /\ svc'.pipes[svc.pipe] = [state |-> "closed",
                               reported |-> <<ReturnError(ERROR_OUTOFMEMORY)>>]

RingViews(l) ==
    UNION {{l.undo_ring_buffer[i].send_ring, l.undo_ring_buffer[i].receive_ring} \ {0}
           : i \in 1..Len(l.undo_ring_buffer)}

\* C35: the ledger of a session holds at most one ring-buffer record, whose
\* two views are mapped.  A register_ring_buffers that succeeds unmaps the
\* views of the previous record and leaves one record with two new views;
\* one that fails leaves no record and no view of the session mapped; the
\* teardown unmaps both views of the record that is left.
C35_OneRingBufferRecord ==
    [][\A s \in Sessions :
          /\ Len(lists'[s].undo_ring_buffer) <= 1
          /\ Cardinality(RingViews(lists'[s])) = 2 * Len(lists'[s].undo_ring_buffer)
          /\ phase'[s] # "done" => RingViews(lists'[s]) \subseteq os'.views
          /\ Handled(s, "msg_register_ring_buffers") =>
                IF ack'[s].error_number = 0
                THEN /\ Len(lists'[s].undo_ring_buffer) = 1
                     /\ os'.views = (os.views \ RingViews(lists[s])) \cup RingViews(lists'[s])
                ELSE /\ lists'[s].undo_ring_buffer = <<>>
                     /\ os'.views = os.views \ RingViews(lists[s])
          /\ phase[s] = "teardown" /\ phase'[s] = "done" =>
                /\ lists'[s].undo_ring_buffer = <<>>
                /\ os'.views = os.views \ RingViews(lists[s])]_vars

\* A second register_ring_buffers succeeded: it needed no memory for a new
\* record (calloc would have failed) because it took over the record of the
\* first, and the views of the session are the two of the one record.
C35_Witness ==
    \E s \in Sessions :
       /\ req[s].msg.type = "msg_register_ring_buffers"
       /\ req[s].fault = "maps"
       /\ ack[s].error_number = 0
       /\ Len(lists[s].undo_ring_buffer) = 1
       /\ os.views = RingViews(lists[s])
       /\ Cardinality(os.views) = 2

(***************************************************************************)
(* The fixed-length string fields of a request: the interface name and the *)
(* DNS domains, as bytes of the message buffer.                            *)
(***************************************************************************)
\* Bytes of a fixed-length string field.
FieldLen == 2

\* field[_countof(field) - 1] = '\0', then the field read as a string.
Terminated(field) == CStr(PutChar(field, Len(field) - 1, NUL))

\* The field read as a string as it came from the pipe: up to the first
\* NUL, in the field or in the bytes that follow it in memory.
Unterminated(field, beyond) == CStr(field \o beyond)

\* The request as its handler reads it.  HandleDNSConfigMessage terminates
\* the interface name and the domains, HandleWINSConfigMessage the interface
\* name; HandleAddressMessage and HandleRouteMessage hand the name to
\* InterfaceLuid and strlen as it is.
StringsRead(m, beyond) ==
    CASE m.type \in {"msg_add_address", "msg_del_address", "msg_add_route", "msg_del_route"} ->
            [m EXCEPT !.iface.name = Unterminated(@, beyond)]
      [] m.type \in {"msg_add_dns_cfg", "msg_del_dns_cfg"} ->
            [m EXCEPT !.iface.name = Terminated(@), !.domains = Terminated(@)]
      [] m.type \in {"msg_add_wins_cfg", "msg_del_wins_cfg"} ->
            [m EXCEPT !.iface.name = Terminated(@)]

\* The contents an engine may put into a field: a string with its
\* terminator, an empty field, a field filled to its last byte.
FieldsOf(c) == {[k \in 1..FieldLen |-> NUL], [k \in 1..FieldLen |-> c],
                [k \in 1..FieldLen |-> IF k = 1 THEN c ELSE NUL]}

\* The requests with string fields, the fields as bytes.
RawMsgs ==
    {AddressMsg("msg_add_address", [index |-> -1, name |-> n], 1) : n \in FieldsOf("t")}
    \cup {RouteMsg("msg_add_route", [index |-> -1, name |-> n], 1) : n \in FieldsOf("t")}
    \cup {DnsMsg("msg_add_dns_cfg", [index |-> -1, name |-> n], "AF_INET", 1, d) :
             n \in FieldsOf("t"), d \in FieldsOf("b")}
    \cup {WinsMsg("msg_add_wins_cfg", [index |-> -1, name |-> n], 1) : n \in FieldsOf("t")}

\* What may follow a field in memory: the next field of the message or, for
\* the last one, bytes of the message buffer that were not read from the pipe.
Beyond == {<<NUL>>, <<"x", NUL>>}

\* One session is in its serve loop; its engine fills the string fields as
\* it likes.
CodecInit ==
    /\ phase = [s \in Sessions |-> IF s = 1 THEN "serve" ELSE "none"]
    /\ lists = [s \in Sessions |-> EmptyLists]
    /\ req = [s \in Sessions |-> NoRequest]
    /\ ack = [s \in Sessions |-> NoAck]
    /\ undoLog = [s \in Sessions |-> <<>>]
    /\ workload = [s \in Sessions |-> IF s = 1 THEN "raw" ELSE "none"]
    /\ os = InitialOs(NoValue, NoValue)
    /\ run = [s \in Sessions |-> IF s = 1 THEN Launched ELSE NoRun]
    /\ exit_event = FALSE
    /\ svc = ServiceRunning({1})

\* HandleMessage for a request with string fields: the handler reads the
\* fields as StringsRead says.  req keeps the request as it was read from
\* the pipe (raw) and as the handler read it (msg).
ServeRaw(s) ==
    /\ phase[s] = "serve"
    /\ \E raw \in RawMsgs, beyond \in Beyond :
          \E fault \in FaultsOf(StringsRead(raw, beyond)) :
             \E r \in {HandleMessage(raw.size, raw.size, StringsRead(raw, beyond),
                                     lists[s], os, fault)} :
                /\ \A k \in UndoKindSet : Len(r.lists[k]) <= MaxUndo
                /\ lists' = [lists EXCEPT ![s] = r.lists]
                /\ req' = [req EXCEPT ![s] = [bytes |-> raw.size, read |-> raw.size,
                                              msg |-> StringsRead(raw, beyond),
                                              fault |-> fault, raw |-> raw]]
                /\ ack' = [ack EXCEPT ![s] = r.ack]
                /\ os' = r.os
    /\ UNCHANGED <<phase, undoLog, workload, run, exit_event, svc>>

CodecNext ==
    \/ \E s \in Sessions : ServeRaw(s)
    \/ \E s \in Sessions : PeekZero(s)
    \/ \E s \in Sessions : Teardown(s)

Codec == CodecInit /\ [][CodecNext]_vars

\* C36: whenever a handler reads the interface name of an address, route,
\* DNS or WINS request, or the domains of a DNS request, as a string, it
\* reads the field with its last byte set to NUL.
C36_StringFieldsAreTerminated ==
    [][\A s \in Sessions :
          phase[s] = "serve" /\ req'[s] # req[s] /\ phase'[s] = "serve" =>
             /\ req'[s].msg.iface.name = Terminated(req'[s].raw.iface.name)
             /\ req'[s].msg.type = "msg_add_dns_cfg" =>
                   req'[s].msg.domains = Terminated(req'[s].raw.domains)]_vars

(***************************************************************************)
(* Name servers: the reset before the write, the address list.             *)
(***************************************************************************)
\* The step of s handled an add_dns_cfg whose interface resolves.
DnsAddResolved(s) ==
    /\ Handled(s, "msg_add_dns_cfg")
    /\ req'[s].msg.iface.name # <<>>
    /\ InterfaceIdString(req'[s].msg.iface.name, req'[s].fault).err = 0

\* The NameServer value the request of s is about.
ServerKey(s) ==
    <<InterfaceIdString(req'[s].msg.iface.name, "none").iid, GetInterfacesKey(req'[s].msg.family)>>

\* In the step of s the NameServer value of the request was reset and the
\* record of the previous add_dns_cfg for the family was unlinked before
\* anything else: the value is empty or the new list, the list of the family
\* holds the new record or none, and nothing of the other family changed.
ServersReset(s) ==
    /\ \/ os'.nameServer[ServerKey(s)] = <<>>
       \/ /\ req'[s].msg.addr_len > 0
          /\ os'.nameServer[ServerKey(s)]
                = AddrsLoop(req'[s].msg, CappedAddrLen(req'[s].msg), 0, <<>>, 0)
    /\ lists'[s][DnsUndoType(req'[s].msg.family)]
          = IF os'.nameServer[ServerKey(s)] # <<>> THEN <<ServerKey(s)[1]>> ELSE <<>>
    /\ \A k \in DOMAIN os.nameServer \ {ServerKey(s)} : os'.nameServer[k] = os.nameServer[k]
    /\ \A t \in {"undo_dns4", "undo_dns6"} \ {DnsUndoType(req'[s].msg.family)} :
          lists'[s][t] = lists[s][t]

\* C37 as stated: every add_dns_cfg whose interface resolves, also one with
\* addr_len = 0, resets the NameServer value of (interface, family) and
\* unlinks the previous record of the family before anything else is written.
C37_EveryAddResetsNameServers ==
    [][\A s \in Sessions : DnsAddResolved(s) => ServersReset(s)]_vars

\* C37 amended: an add_dns_cfg whose interface resolves and whose addr_len
\* is greater than 0 resets the NameServer value of (interface, family) and
\* unlinks the record of the previous add_dns_cfg for the family before
\* anything else is written; one with addr_len = 0 leaves every NameServer
\* value and every name server record as it is.
C37_AddWithAddressesResetsNameServers ==
    [][\A s \in Sessions :
          DnsAddResolved(s) =>
             IF req'[s].msg.addr_len > 0
             THEN ServersReset(s)
             ELSE /\ os'.nameServer = os.nameServer
                  /\ \A t \in {"undo_dns4", "undo_dns6"} : lists'[s][t] = lists[s][t]]_vars

\* An add_dns_cfg with addr_len = 0 and domains was acknowledged with 0 and
\* the name servers of an earlier request and their record are in place.
C37_Witness ==
    \E s \in Sessions :
       /\ req[s].msg.type = "msg_add_dns_cfg"
       /\ req[s].msg.addr_len = 0
       /\ req[s].msg.domains # <<>>
       /\ req[s].msg.family = "AF_INET"
       /\ ack[s].error_number = 0
       /\ os.nameServer[<<"{1}", "Tcpip">>] # <<>>
       /\ lists[s]["undo_dns6"] = <<"{1}">>
       /\ lists[s]["undo_domains"] # <<>>

\* One session is in its serve loop; its engine sets name servers.
ServersInit ==
    /\ phase = [s \in Sessions |-> IF s = 1 THEN "serve" ELSE "none"]
    /\ lists = [s \in Sessions |-> EmptyLists]
    /\ req = [s \in Sessions |-> NoRequest]
    /\ ack = [s \in Sessions |-> NoAck]
    /\ undoLog = [s \in Sessions |-> <<>>]
    /\ workload = [s \in Sessions |-> IF s = 1 THEN "servers" ELSE "none"]
    /\ os = InitialOs(NoValue, NoValue)
    /\ run = [s \in Sessions |-> IF s = 1 THEN Launched ELSE NoRun]
    /\ exit_event = FALSE
    /\ svc = ServiceRunning({1})

ServersNext ==
    \/ \E s \in Sessions : Serve(s)
    \/ \E s \in Sessions : PeekZero(s)
    \/ \E s \in Sessions : PeekOversized(s)
    \/ \E s \in Sessions : Teardown(s)

Servers == ServersInit /\ [][ServersNext]_vars

\* The textual forms of the first n addresses of m, joined by single commas.
RECURSIVE CommaJoined(_, _)
CommaJoined(m, n) ==
    IF n = 0
    THEN <<>>
    ELSE (IF n = 1 THEN <<>> ELSE CommaJoined(m, n - 1) \o <<",">>)
         \o (IF m.family = "AF_INET6" THEN Ipv6String(m.addr[n]) ELSE Ipv4String(m.addr[n]))

\* The step of s handled an add_dns_cfg with addresses and acknowledged it
\* with 0.
ServersAdded(s) ==
    /\ DnsAddResolved(s)
    /\ req'[s].msg.addr_len >= 1
    /\ ack'[s].error_number = 0

\* C38: after a successful add_dns_cfg with n addresses, n = addr_len capped
\* at 4, the NameServer value of (interface, family) is the textual forms of
\* all n addresses in request order joined by single commas.
C38_NameServerHoldsAllAddresses ==
    [][\A s \in Sessions :
          ServersAdded(s) =>
             os'.nameServer[ServerKey(s)]
                = CommaJoined(req'[s].msg, CappedAddrLen(req'[s].msg))]_vars

(***************************************************************************)
(* Option validation as a whole.                                           *)
(***************************************************************************)
\* Every argument of argv passes the whitelist: no option CheckOption
\* rejects and, for a single argument, a config file CheckOption accepts.
EveryOptionPasses(argv) == \A i \in 1..Len(argv) : argv[i] # "denied"

\* The step of s is the launch, and RunOpenvpn came to validate the options.
OptionsValidated(s) ==
    /\ phase[s] = "start"
    /\ phase'[s] # "start"
    /\ run'[s].fault \notin {"token", "CommandLineToArgvW"}

\* C39: ValidateOptions returns true exactly when every option of the option
\* string passes the whitelist check: true for an empty option string, for a
\* single argument true if and only if CheckOption accepts it as the config
\* file, for several arguments true if and only if CheckOption accepts every
\* argument that is an option.
C39_ValidExactlyWhenEveryOptionPasses ==
    [][\A s \in Sessions :
          OptionsValidated(s) =>
             (ValidateOptions(run[s].argv, run'[s].fault) <=> EveryOptionPasses(run[s].argv))]_vars

(***************************************************************************)
(* Requests without undo.                                                  *)
(***************************************************************************)
EphemeralTypes ==
    {"msg_flush_neighbors", "msg_enable_dhcp", "msg_set_mtu", "msg_register_dns"}

\* C40: flush_neighbors, enable_dhcp, set_mtu and register_dns requests leave
\* every undo list as it is, whether they succeed or fail; a register_dns
\* request whose helper thread was created is acknowledged with 0 while the
\* thread has yet to acquire the semaphore and to run the ipconfig commands.
C40_EphemeralRequestsKeepLedger ==
    [][\A s \in Sessions :
          \A t \in EphemeralTypes :
             Handled(s, t) =>
                /\ lists' = lists
                /\ t = "msg_register_dns" /\ req'[s].fault # "thread" =>
                      /\ ack'[s].error_number = 0
                      /\ os'.rdnsWaiting = os.rdnsWaiting + 1
                      /\ os'.rdnsRunning = os.rdnsRunning
                      /\ os'.rdnsSemaphore = os.rdnsSemaphore]_vars

\* A register_dns request was acknowledged with 0 while an earlier helper
\* thread holds the semaphore and the new one waits for it, and the ring
\* buffer record of the session is still linked.
C40_Witness ==
    \E s \in Sessions :
       /\ phase[s] = "serve"
       /\ req[s].msg.type = "msg_register_dns"
       /\ req[s].fault = "none"
       /\ ack[s].error_number = 0
       /\ os.rdnsSemaphore = 0
       /\ os.rdnsRunning = 1
       /\ os.rdnsWaiting = 1
       /\ lists[s]["undo_ring_buffer"] # <<>>

====
